---- MODULE Spec2Model ----
(***************************************************************************)
(* The adaptive analytics engine of nihar-landge/brain: the adaptive       *)
(* predictors (backend/ml/adaptive_predictor.py), the service that calls   *)
(* them (backend/services/ml_service.py) and the model trainer with its    *)
(* artifact store (backend/ml/mood_predictor.py, habit_predictor.py,       *)
(* training_pipeline.py).                                                  *)
(*                                                                         *)
(* Numbers.  Python floats that come from one division of small integers   *)
(* are kept as exact fractions <<numerator, denominator>> and compared by  *)
(* cross-multiplication; round(x, 1) is computed digit for digit,          *)
(* including the direction binary64 gives to a value that lies half-way.   *)
(*                                                                         *)
(* Tables.  A table is a sequence of runs in date order; a run stands for  *)
(* n rows with the same column values (n logs on the same weekday of       *)
(* successive weeks, say).  Queries count, sum and filter rows as the      *)
(* code's queries do.                                                      *)
(***************************************************************************)
EXTENDS Integers, Sequences, FiniteSets, TLC

VARIABLES
    moodLogs,      \* table mood_logs
    habits,        \* table habits
    habitLogs,     \* table habit_logs
    journal,       \* table journal_entries
    call,          \* the request being served last
    result,        \* what that request returned
    files,         \* ML_MODELS_DIR: file name -> content
    mlModels,      \* table ml_models, in insertion order
    workers,       \* the server processes, each serving one request at a time
    loaded,        \* self.model of the predictor each process holds
    retrains,      \* retrain requests accepted so far
    calendar,      \* the days before today, oldest first: what each table holds for the day
    predictions,   \* table predictions, in insertion order
    dowhy,         \* causal_inference_service._dowhy_available
    earlier        \* the caller's record of the first correlations it was sent

vars == <<moodLogs, habits, habitLogs, journal, call, result,
          files, mlModels, workers, loaded, retrains,
          calendar, predictions, dowhy, earlier>>

dbVars == <<moodLogs, habits, habitLogs, journal, calendar, predictions>>
storeVars == <<files, mlModels, workers, loaded, retrains, dowhy>>

----------------------------------------------------------------------------
(* Bounds of the model *)

\* Runs per table in an initial database.
MaxRuns == 2
\* Retrain requests the server accepts in one behaviour.
MaxRetrains == 2

Users == {1, 2}
\* Weekdays as datetime.weekday(): 0 = Monday .. 6 = Sunday.
Weekdays == 0..6
\* Weekdays, values and run lengths the initial tables are drawn from.
LogDows == {0, 1}
MoodValues == {5, 7}
MoodRunLens == {1, 5, 30, 100}
HabitRunLens == {1, 20, 100}
EnergyValues == {4, 7}
EnergyRunLens == {1, 40, 60}

----------------------------------------------------------------------------
(* Fractions and rounding *)

Frac(a, b) == <<a, b>>
FLe(x, y) == x[1] * y[2] <= y[1] * x[2]
FEq(x, y) == x[1] * y[2] = y[1] * x[2]
FMin(x, y) == IF FLe(x, y) THEN x ELSE y

RECURSIVE SeqSum(_)
SeqSum(s) == IF s = <<>> THEN 0 ELSE Head(s) + SeqSum(Tail(s))

\* Whether binary64 stores i + k/20 (k odd, 1 <= i <= 9) above the decimal
\* value, so that round(_, 1) goes up; x.25 and x.75 are exact and go to the
\* even digit.
TieUp(i, k) ==
    CASE k = 1  -> i \in {1, 8, 9}
      [] k = 3  -> i >= 4
      [] k = 5  -> FALSE
      [] k = 7  -> i <= 3
      [] k = 9  -> i \in 2..7
      [] k = 11 -> i \in {1, 8, 9}
      [] k = 13 -> i >= 4
      [] k = 15 -> TRUE
      [] k = 17 -> i <= 3
      [] k = 19 -> i \in 2..7
      [] OTHER  -> FALSE

\* round(s / n, 1) in tenths, for a mean of values in 1..10.
Round1(s, n) ==
    LET q == (10 * s) \div n
        r == (10 * s) % n
        i == s \div n
        k == ((20 * s) \div n) - 20 * i
    IN  IF 2 * r < n THEN q
        ELSE IF 2 * r > n THEN q + 1
        ELSE IF TieUp(i, k) THEN q + 1 ELSE q

----------------------------------------------------------------------------
(* Queries *)

Rows(t) == SeqSum([i \in 1..Len(t) |-> t[i].n])
OfUser(t, user_id) == SelectSeq(t, LAMBDA r : r.user_id = user_id)
\* OnDow with the weekday off by one (isoweekday for weekday).
OnDowOffByOne(t, dow) == SelectSeq(t, LAMBDA r : r.dow = (dow + 1) % 7)
OnDow(t, dow) == SelectSeq(t, LAMBDA r : r.dow = dow)
MoodSum(t) == SeqSum([i \in 1..Len(t) |-> t[i].n * t[i].mood_value])

----------------------------------------------------------------------------
(* config.py *)

\* ML_MIN_SAMPLES with a digit of the mood minimum dropped.
ML_MIN_SAMPLES_Low == [mood |-> 3, habit |-> 20, energy |-> 40, decision |-> 10]
ML_MIN_SAMPLES == [mood |-> 30, habit |-> 20, energy |-> 40, decision |-> 10]

----------------------------------------------------------------------------
(* AdaptiveMLPredictor: mood *)

\* A target_date argument: a string that strptime parses, given by the
\* weekday of its date, or one that it does not.
Date(dow) == [parses |-> TRUE, weekday |-> dow]
BadDate == [parses |-> FALSE]
ParsesAsDate(target_date) == target_date.parses

NeedMessage(domain, n) == <<"Need", ML_MIN_SAMPLES[domain], "Currently", n>>

\* _simple_average_mood: the mean of the last seven days' logs, else 7.0.
SimpleAverageMood(logs, user_id) ==
    LET last_week == SelectSeq(OfUser(logs, user_id), LAMBDA r : r.recent)
    IN  IF Rows(last_week) = 0 THEN Frac(7, 1)
        ELSE Frac(MoodSum(last_week), Rows(last_week))

\* _mood_baseline: weekday mean, else overall mean, else the default.
MoodBaseline(logs, user_id, target_dow) ==
    LET same_day_moods == OfUser(logs, user_id)
        filtered == OnDow(same_day_moods, target_dow)
    IN  IF Rows(filtered) > 0 THEN
            [prediction |-> Frac(Round1(MoodSum(filtered), Rows(filtered)), 10),
             method |-> "day_of_week_average",
             confidence |-> FMin(Frac(Rows(filtered), 10), Frac(8, 10)),
             factors |-> << <<"Based on past", Rows(filtered), target_dow>>,
                            <<"Average mood on", target_dow,
                              Round1(MoodSum(filtered), Rows(filtered))>> >>]
        ELSE IF Rows(same_day_moods) > 0 THEN
            [prediction |-> Frac(Round1(MoodSum(same_day_moods), Rows(same_day_moods)), 10),
             method |-> "overall_average",
             confidence |-> FMin(Frac(Rows(same_day_moods), 20), Frac(6, 10)),
             factors |-> << <<"Overall average",
                              Round1(MoodSum(same_day_moods), Rows(same_day_moods))>> >>]
        ELSE
            [prediction |-> Frac(7, 1),
             method |-> "default",
             confidence |-> Frac(1, 10),
             factors |-> << <<"No historical data">> >>]

\* _ml_mood_prediction: fit a RandomForestRegressor on every log and predict.
\* fit_fails: the import, the fit or the predict raises; ml_value: what the
\* fitted model predicts, in tenths.
MlMoodPrediction(logs, user_id, target_dow, fit_fails, ml_value) ==
    IF Rows(OfUser(logs, user_id)) < 100 THEN MoodBaseline(logs, user_id, target_dow)
    ELSE IF fit_fails THEN MoodBaseline(logs, user_id, target_dow)
    ELSE [prediction |-> Frac(ml_value, 10),
          confidence |-> Frac(7, 10),
          use_prediction |-> TRUE,
          method |-> "random_forest",
          factors |-> << <<"importance", 1>>, <<"importance", 2>>,
                         <<"importance", 3>>, <<"importance", 4>> >>]

\* The except branch of predict_mood.
MoodErrorFallback(logs, user_id) ==
    [prediction |-> SimpleAverageMood(logs, user_id),
     confidence |-> Frac(2, 10),
     use_prediction |-> FALSE,
     method |-> "fallback",
     message |-> <<"Prediction error">>,
     factors |-> << <<"Error fallback">> >>]

\* The Simple tier's return of predict_mood: the baseline and use_prediction.
MoodSimpleResult(logs, user_id, target_dow, confidence_threshold) ==
    LET baseline == MoodBaseline(logs, user_id, target_dow)
    IN  [prediction |-> baseline.prediction,
         method |-> baseline.method,
         confidence |-> baseline.confidence,
         factors |-> baseline.factors,
         use_prediction |-> FLe(confidence_threshold, baseline.confidence)]

\* AdaptiveMLPredictor.predict_mood
AdaptivePredictMood(logs, user_id, target_date, confidence_threshold, fit_fails, ml_value) ==
    LET total_entries == Rows(OfUser(logs, user_id))
    IN  IF total_entries < ML_MIN_SAMPLES["mood"] THEN
            [prediction |-> SimpleAverageMood(logs, user_id),
             confidence |-> Frac(3, 10),
             use_prediction |-> FALSE,
             method |-> "simple_average",
             message |-> NeedMessage("mood", total_entries),
             factors |-> << <<"Insufficient data - using average">> >>]
        ELSE IF ~ParsesAsDate(target_date) THEN MoodErrorFallback(logs, user_id)
        ELSE IF total_entries < 100 THEN
            MoodSimpleResult(logs, user_id, target_date.weekday, confidence_threshold)
        ELSE MlMoodPrediction(logs, user_id, target_date.weekday, fit_fails, ml_value)

----------------------------------------------------------------------------
(* AdaptiveMLPredictor: habit *)

\* log_time and target_time by their hour ("09"); NoHour is None, BadTime a
\* target_time whose hour does not parse.
NoHour == "None"
BadTime == "xx"

DoneRows(t) == Rows(SelectSeq(t, LAMBDA r : r.completed))

\* round(a / b, 2) in hundredths; a value half-way between two hundredths
\* goes to the even one.
Round2(a, b) ==
    LET q == (100 * a) \div b
        r == (100 * a) % b
    IN  IF 2 * r < b THEN q
        ELSE IF 2 * r > b THEN q + 1
        ELSE IF q % 2 = 0 THEN q ELSE q + 1

RECURSIVE GCD(_, _)
GCD(a, b) == IF b = 0 THEN a ELSE GCD(b, a % b)

\* The running prediction kept as it is.
FAvgKeepsFirst(x, y) == x

\* (x + y) / 2, in lowest terms
FAvg(x, y) ==
    LET num == x[1] * y[2] + y[1] * x[2]
        den == 2 * x[2] * y[2]
        g == GCD(den, num)
    IN  Frac(num \div g, den \div g)

\* A streak that counts every completed log.
StreakOfAllCompleted(t) == DoneRows(t)

\* The streak loop of _habit_baseline: logs newest first, counted until the
\* first one that is not completed.
RECURSIVE Streak(_)
Streak(t) ==
    IF t = <<>> THEN 0
    ELSE LET newest == t[Len(t)]
         IN  IF newest.completed
             THEN newest.n + Streak(SubSeq(t, 1, Len(t) - 1))
             ELSE 0

\* _habit_baseline
HabitBaseline(logs, target_dow, target_time) ==
    LET overall_rate == Frac(DoneRows(logs), Rows(logs))
        dow_logs == OnDow(logs, target_dow)
        dow_rate == Frac(DoneRows(dow_logs), Rows(dow_logs))
        after_dow == IF Rows(dow_logs) > 0 THEN FAvg(overall_rate, dow_rate)
                     ELSE overall_rate
        timed == target_time # NoHour /\ target_time # BadTime
        time_logs == SelectSeq(logs, LAMBDA r : r.hour # NoHour /\ r.hour = target_time)
        time_rate == Frac(DoneRows(time_logs), Rows(time_logs))
        prediction == IF timed /\ Rows(time_logs) > 0 THEN FAvg(after_dow, time_rate)
                      ELSE after_dow
        streak == Streak(logs)
        factors ==
            << <<"Overall success rate", overall_rate>> >>
            \o (IF Rows(dow_logs) > 0
                THEN << <<"Weekday success rate", target_dow, dow_rate, Rows(dow_logs)>> >>
                ELSE <<>>)
            \o (IF timed /\ Rows(time_logs) > 0
                THEN << <<"Success at", target_time, time_rate>> >>
                ELSE <<>>)
            \o (IF streak > 0 THEN << <<"Current streak", streak>> >> ELSE <<>>)
    IN  [prediction |-> Frac(Round2(prediction[1], prediction[2]), 100),
         confidence |-> FMin(Frac(Rows(logs), 50), Frac(9, 10)),
         method |-> "historical_baseline",
         factors |-> factors,
         streak |-> streak]

Raised(what) == [raised |-> what]

\* AdaptiveMLPredictor.predict_habit_success
AdaptivePredictHabit(habitTable, logTable, user_id, habit_name, target_date, target_time) ==
    LET found == {h \in habitTable : h.user_id = user_id /\ h.habit_name = habit_name}
    IN  IF found = {} THEN
            [prediction |-> Frac(5, 10), confidence |-> Frac(0, 1),
             method |-> "no_data", message |-> <<"No habit found", habit_name>>]
        ELSE
            LET habit == CHOOSE h \in found : \A g \in found : h.id <= g.id
                logs == SelectSeq(OfUser(logTable, user_id), LAMBDA r : r.habit_id = habit.id)
            IN  IF Rows(logs) < ML_MIN_SAMPLES["habit"] THEN
                    IF Rows(logs) = 0 THEN
                        [prediction |-> Frac(5, 10), confidence |-> Frac(0, 1),
                         method |-> "no_data",
                         message |-> NeedMessage("habit", Rows(logs))]
                    ELSE
                        [prediction |-> Frac(DoneRows(logs), Rows(logs)),
                         confidence |-> FMin(Frac(Rows(logs), 30), Frac(8, 10)),
                         method |-> "overall_historical",
                         message |-> <<"Based on logs", Rows(logs)>>,
                         factors |-> << <<"Overall success rate",
                                          Frac(DoneRows(logs), Rows(logs))>> >>]
                ELSE IF ~ParsesAsDate(target_date) THEN Raised("ValueError")
                ELSE HabitBaseline(logs, target_date.weekday, target_time)

----------------------------------------------------------------------------
(* AdaptiveMLPredictor: energy *)

\* A journal entry's energy_level when the column is NULL (the column's
\* check constraint keeps real values in 1..10).
NULL == 0

EnergySum(t) == SeqSum([i \in 1..Len(t) |-> t[i].n * t[i].energy_level])

\* .order_by(entry_date.desc()).limit(k): the k newest rows, kept in date order.
RECURSIVE Newest(_, _)
Newest(t, k) ==
    IF k = 0 \/ t = <<>> THEN <<>>
    ELSE LET r == t[Len(t)]
         IN  IF r.n >= k THEN << [r EXCEPT !.n = k] >>
             ELSE Newest(SubSeq(t, 1, Len(t) - 1), k - r.n) \o <<r>>

\* The weekdays of the entries in the order the loop first meets them
\* (newest entry first): the keys of dow_averages in insertion order.
RECURSIVE DowsSeen(_)
DowsSeen(t) ==
    IF t = <<>> THEN <<>>
    ELSE LET dow == t[Len(t)].dow
         IN  <<dow>> \o SelectSeq(DowsSeen(SubSeq(t, 1, Len(t) - 1)),
                                  LAMBDA d : d # dow)

DowMean(t, dow) == Frac(EnergySum(OnDow(t, dow)), Rows(OnDow(t, dow)))

\* sorted(dow_averages.items(), key=mean): stable, ascending.
RECURSIVE SortedDows(_, _)
SortedDows(t, dows) ==
    IF dows = <<>> THEN <<>>
    ELSE LET rest == SortedDows(t, SubSeq(dows, 1, Len(dows) - 1))
             d == dows[Len(dows)]
             notAfter == SelectSeq(rest, LAMBDA e : FLe(DowMean(t, e), DowMean(t, d)))
             after == SelectSeq(rest, LAMBDA e : ~FLe(DowMean(t, e), DowMean(t, d)))
         IN  notAfter \o <<d>> \o after

LastN(s, k) == SubSeq(s, (IF Len(s) > k THEN Len(s) - k + 1 ELSE 1), Len(s))
FirstN(s, k) == SubSeq(s, 1, (IF Len(s) > k THEN k ELSE Len(s)))

\* AdaptiveMLPredictor.forecast_energy; today is datetime.now().weekday().
ForecastEnergy(entryTable, user_id, days_ahead, today) ==
    LET entries == Newest(SelectSeq(OfUser(entryTable, user_id),
                                    LAMBDA r : r.energy_level # NULL), 90)
        n == Rows(entries)
    IN  IF n < ML_MIN_SAMPLES["energy"] THEN
            LET avg_energy == IF n > 0 THEN Round1(EnergySum(entries), n) ELSE 50
            IN  [forecast |-> [i \in 1..days_ahead |->
                                 [date |-> i,
                                  energy |-> Frac(avg_energy, 10),
                                  confidence |-> Frac(3, 10)]],
                 method |-> "average",
                 message |-> NeedMessage("energy", n)]
        ELSE
            LET seen == DowsSeen(entries)
                sorted_dow == SortedDows(entries, seen)
                overall_avg == Round1(EnergySum(entries), n)
                Energy(dow) == IF Rows(OnDow(entries, dow)) > 0
                               THEN Round1(EnergySum(OnDow(entries, dow)),
                                           Rows(OnDow(entries, dow)))
                               ELSE overall_avg
            IN  [forecast |-> [i \in 1..days_ahead |->
                                 [date |-> i,
                                  day |-> (today + i) % 7,
                                  energy |-> Frac(Energy((today + i) % 7), 10),
                                  confidence |-> FMin(Frac(n, 90), Frac(9, 10))]],
                 method |-> "day_of_week_average",
                 peak_days |-> LastN(sorted_dow, 2),
                 low_days |-> FirstN(sorted_dow, 2),
                 overall_average |-> Frac(overall_avg, 10)]

\* AdaptiveMLPredictor.get_data_status
GetDataStatus(moodTable, entryTable, logTable, user_id) ==
    LET mood_count == Rows(OfUser(moodTable, user_id))
        entry_count == Rows(OfUser(entryTable, user_id))
        habit_count == Rows(OfUser(logTable, user_id))
    IN  [strategy |-> IF entry_count >= 365 THEN "advanced_ml"
                      ELSE IF entry_count >= 100 THEN "ml_models"
                      ELSE IF entry_count >= 30 THEN "simple_models"
                      ELSE "data_collection",
         mood_entries |-> mood_count,
         journal_entries |-> entry_count,
         habit_logs |-> habit_count,
         min_samples |-> ML_MIN_SAMPLES,
         predictions_available |-> entry_count >= 30,
         confidence_level |-> IF entry_count >= 365 THEN "high"
                              ELSE IF entry_count >= 100 THEN "moderate"
                              ELSE IF entry_count >= 30 THEN "low"
                              ELSE "none"]

----------------------------------------------------------------------------
(* The databases the model starts from.  User 1 is the user whose data     *)
(* varies; user 2 always holds the same rows, which no query for user 1    *)
(* may count.                                                              *)

TablesOf(Run) == UNION {[1..k -> Run] : k \in 0..MaxRuns}

MoodRun == [user_id : {1}, dow : LogDows, mood_value : MoodValues,
            recent : BOOLEAN, n : MoodRunLens]
HabitRun == [user_id : {1}, habit_id : {1}, dow : LogDows, completed : BOOLEAN,
             hour : {NoHour, "09"}, n : HabitRunLens]
JournalRun == [user_id : {1}, dow : LogDows, energy_level : EnergyValues \cup {NULL},
               n : EnergyRunLens]

OtherMood == <<[user_id |-> 2, dow |-> 0, mood_value |-> 9, recent |-> TRUE, n |-> 100]>>
OtherHabitLogs == <<[user_id |-> 2, habit_id |-> 2, dow |-> 0, completed |-> TRUE,
                     hour |-> "09", n |-> 20]>>
OtherJournal == <<[user_id |-> 2, dow |-> 0, energy_level |-> 9, n |-> 40]>>

HabitTable == {[id |-> 1, user_id |-> 1, habit_name |-> "run"],
               [id |-> 2, user_id |-> 2, habit_name |-> "run"]}

InitDb ==
    /\ habits = HabitTable
    /\ \/ /\ moodLogs \in {t \o OtherMood : t \in TablesOf(MoodRun)}
          /\ habitLogs = OtherHabitLogs
          /\ journal = OtherJournal
       \/ /\ moodLogs = OtherMood
          /\ habitLogs \in {t \o OtherHabitLogs : t \in TablesOf(HabitRun)}
          /\ journal = OtherJournal
       \/ /\ moodLogs = OtherMood
          /\ habitLogs = OtherHabitLogs
          /\ journal \in {t \o OtherJournal : t \in TablesOf(JournalRun)}

NoCall == [op |-> "none"]
\* No caller is keeping what it was sent.
Unobserved == [op |-> "unobserved"]

Workers == {1, 2}
ModelNames == {"mood_predictor", "habit_predictor"}

\* os.path.join(ML_MODELS_DIR, f"{MODEL_NAME}_v1.pkl")
ModelPath(model_name) == <<"./ml/models", model_name, "_v1.pkl">>

NoFile == [kind |-> "absent"]
IdleWorker == [pc |-> "idle"]
NothingLoaded == [kind |-> "nothing"]

\* The artifact store before any training.
InitStore ==
    /\ files = [path \in {ModelPath(m) : m \in ModelNames} |-> NoFile]
    /\ mlModels = <<>>
    /\ workers = [w \in Workers |-> IdleWorker]
    /\ loaded = [w \in Workers |-> NothingLoaded]
    /\ retrains = 0
    /\ calendar = <<>>
    /\ predictions = <<>>
    /\ dowhy = "None"
    /\ earlier = Unobserved

Init ==
    /\ InitDb
    /\ call = NoCall
    /\ result = NoCall
    /\ InitStore

----------------------------------------------------------------------------
(* The prediction calls.  A request is served in one step (the predictors  *)
(* read the tables and return); the next step hands the result to the      *)
(* caller, and the server is idle again.                                   *)

Idle == call = NoCall

TargetDates == {Date(0), Date(2), BadDate}
\* (habit_name, target_date, target_time) of the habit requests
HabitRequests == {<<"run", Date(0), NoHour>>, <<"run", Date(0), "09">>,
                  <<"run", Date(2), "09">>, <<"run", Date(0), BadTime>>,
                  <<"run", BadDate, NoHour>>, <<"swim", Date(0), NoHour>>}
\* (days_ahead, today's weekday) of the energy requests
EnergyRequests == {<<0, 0>>, <<2, 0>>, <<2, 5>>}
\* What the fitted forest predicts, in tenths.
MlValues == {52, 60}
\* predict_mood's confidence_threshold: the default.
DefaultThreshold == Frac(5, 10)

\* Whether predict_mood gets as far as fitting the model.
ReachesFit(logs, user_id, target_date) ==
    /\ Rows(OfUser(logs, user_id)) >= 100
    /\ ParsesAsDate(target_date)

PredictMood ==
    \E user_id \in Users, target_date \in TargetDates,
       fit_fails \in BOOLEAN, ml_value \in MlValues :
        /\ Idle
        /\ call' = [op |-> "predict_mood", user_id |-> user_id,
                    target_date |-> target_date, threshold |-> DefaultThreshold,
                    fit |-> IF ~ReachesFit(moodLogs, user_id, target_date) THEN "not run"
                            ELSE IF fit_fails THEN "failed" ELSE "fitted"]
        /\ result' = AdaptivePredictMood(moodLogs, user_id, target_date,
                                         DefaultThreshold, fit_fails, ml_value)
        /\ UNCHANGED <<dbVars, storeVars, earlier>>

\* _mood_baseline called on its own, as the Simple tier's unit.
MoodBaselineCall ==
    \E user_id \in Users, dow \in {0, 2} :
        /\ Idle
        /\ call' = [op |-> "mood_baseline", user_id |-> user_id,
                    target_date |-> Date(dow)]
        /\ result' = MoodBaseline(moodLogs, user_id, dow)
        /\ UNCHANGED <<dbVars, storeVars, earlier>>

PredictHabit ==
    \E user_id \in Users, req \in HabitRequests :
        /\ Idle
        /\ call' = [op |-> "predict_habit_success", user_id |-> user_id,
                    habit_name |-> req[1], target_date |-> req[2],
                    target_time |-> req[3]]
        /\ result' = AdaptivePredictHabit(habits, habitLogs, user_id, req[1],
                                          req[2], req[3])
        /\ UNCHANGED <<dbVars, storeVars, earlier>>

ForecastEnergyCall ==
    \E user_id \in Users, req \in EnergyRequests :
        /\ Idle
        /\ call' = [op |-> "forecast_energy", user_id |-> user_id,
                    days_ahead |-> req[1], today |-> req[2]]
        /\ result' = ForecastEnergy(journal, user_id, req[1], req[2])
        /\ UNCHANGED <<dbVars, storeVars, earlier>>

DataStatus ==
    \E user_id \in Users :
        /\ Idle
        /\ call' = [op |-> "get_data_status", user_id |-> user_id]
        /\ result' = GetDataStatus(moodLogs, journal, habitLogs, user_id)
        /\ UNCHANGED <<dbVars, storeVars, earlier>>

\* The endpoint returns the result; the predictor object is dropped.
Respond ==
    /\ ~Idle
    /\ call' = NoCall
    /\ result' = NoCall
    /\ UNCHANGED <<dbVars, storeVars, earlier>>

Next ==
    \/ PredictMood
    \/ MoodBaselineCall
    \/ PredictHabit
    \/ ForecastEnergyCall
    \/ DataStatus
    \/ Respond

Spec == Init /\ [][Next]_vars

----------------------------------------------------------------------------
(* Retraining and the model files.  POST /predictions/retrain runs         *)
(* TrainingPipeline.retrain in the server process that took the request;   *)
(* nothing in it takes a lock, so two processes step through it            *)
(* independently.  The model file of a predictor is named after the        *)
(* predictor alone.  What a training run writes carries the number of its  *)
(* request (run), which stands for the model object pickle writes.         *)

\* model_name is a free query parameter; "other" is any name that is
\* neither "all" nor a predictor's.
RetrainNames == {"all", "other"} \cup ModelNames

\* The order in which retrain trains the models asked for.
TodoOf(model_name) ==
    SelectSeq(<<"mood_predictor", "habit_predictor">>,
              LAMBDA m : model_name \in {"all", m})

\* The sample count each train() reads, and the least it accepts.
TrainingSamples(model_name, user_id) ==
    IF model_name = "mood_predictor" THEN Rows(OfUser(moodLogs, user_id))
    ELSE Rows(OfUser(habitLogs, user_id))
TrainingMinimum(model_name) == IF model_name = "mood_predictor" THEN 30 ELSE 20

ModelType(model_name) ==
    IF model_name = "mood_predictor" THEN "RandomForest" ELSE "XGBoost"

\* train() returned res for the model in hand; retrain goes on to the next.
Trained(worker, res) ==
    LET rest == Tail(worker.todo)
    IN  [worker EXCEPT !.pc = IF rest = <<>> THEN "return" ELSE "train",
                       !.todo = rest,
                       !.results = (Head(worker.todo) :> res) @@ @]

\* The request is over and its response on the way to the caller.
Responding(worker, response) ==
    [response |-> response] @@ [worker EXCEPT !.pc = "respond"]

StartRetrain(w) ==
    \E user_id \in Users, model_name \in RetrainNames :
        /\ workers[w] = IdleWorker
        /\ retrains < MaxRetrains
        /\ retrains' = retrains + 1
        /\ workers' = [workers EXCEPT ![w] =
                [pc |-> IF TodoOf(model_name) = <<>> THEN "return" ELSE "train",
                 op |-> "retrain", user_id |-> user_id,
                 model_name |-> model_name, run |-> retrains + 1,
                 todo |-> TodoOf(model_name), results |-> <<>>]]
        /\ UNCHANGED <<dbVars, dowhy, earlier, call, result, files, mlModels, loaded>>

\* train() up to its early returns: the xgboost import (habit only) and
\* the sample count.
TrainCheck(w) ==
    \E xgboost_imports \in BOOLEAN :
        LET worker == workers[w]
            m == Head(worker.todo)
            n == TrainingSamples(m, worker.user_id)
        IN  /\ worker.pc = "train"
            /\ workers' = [workers EXCEPT ![w] =
                    IF m = "habit_predictor" /\ ~xgboost_imports
                    THEN Trained(worker, [status |-> "error",
                                          message |-> "XGBoost not installed"])
                    ELSE IF n < TrainingMinimum(m)
                    THEN Trained(worker, [status |-> "error",
                                          message |-> "Need more logs"])
                    ELSE [worker EXCEPT !.pc = "fit"]]
            /\ UNCHANGED <<dbVars, dowhy, earlier, call, result, files, mlModels, loaded, retrains>>

\* fit (and, for mood, cross_val_score): either raises, and the exception
\* leaves retrain, or yields the model object.
TrainFit(w) ==
    \E fit_raises \in BOOLEAN :
        LET worker == workers[w]
        IN  /\ worker.pc = "fit"
            /\ workers' = [workers EXCEPT ![w] =
                    IF fit_raises THEN Responding(worker, Raised("fit error"))
                    ELSE [worker EXCEPT !.pc = "save"]]
            /\ UNCHANGED <<dbVars, dowhy, earlier, call, result, files, mlModels, loaded, retrains>>

\* open(model_path, "wb") truncates the file in place.
TrainOpen(w) ==
    LET worker == workers[w]
    IN  /\ worker.pc = "save"
        /\ files' = [files EXCEPT ![ModelPath(Head(worker.todo))] =
                [kind |-> "partial", run |-> worker.run, user_id |-> worker.user_id]]
        /\ workers' = [workers EXCEPT ![w] = [worker EXCEPT !.pc = "dump"]]
        /\ UNCHANGED <<dbVars, dowhy, earlier, call, result, mlModels, loaded, retrains>>

\* pickle.dump and the close of the file: the whole model is in the file,
\* or the write raises and leaves what was written.
TrainDump(w) ==
    \E write_raises \in BOOLEAN :
        LET worker == workers[w]
        IN  /\ worker.pc = "dump"
            /\ IF write_raises
               THEN /\ workers' = [workers EXCEPT ![w] =
                            Responding(worker, Raised("OSError"))]
                    /\ UNCHANGED files
               ELSE /\ files' = [files EXCEPT ![ModelPath(Head(worker.todo))] =
                            [kind |-> "complete", run |-> worker.run,
                             user_id |-> worker.user_id]]
                    /\ workers' = [workers EXCEPT ![w] = [worker EXCEPT !.pc = "metadata"]]
            /\ UNCHANGED <<dbVars, dowhy, earlier, call, result, mlModels, loaded, retrains>>

\* db.add(MLModel(...)); db.commit(); return {"status": "success", ...}
TrainCommit(w) ==
    LET worker == workers[w]
        m == Head(worker.todo)
        n == TrainingSamples(m, worker.user_id)
    IN  /\ worker.pc = "metadata"
        /\ mlModels' = Append(mlModels,
                [user_id |-> worker.user_id, model_name |-> m,
                 model_version |-> "1.0", model_type |-> ModelType(m),
                 training_samples |-> n, model_file_path |-> ModelPath(m),
                 is_active |-> TRUE, run |-> worker.run])
        /\ workers' = [workers EXCEPT ![w] =
                Trained(worker, [status |-> "success", model |-> m, samples |-> n])]
        /\ UNCHANGED <<dbVars, dowhy, earlier, call, result, files, loaded, retrains>>

\* TrainingPipeline.retrain's return
RetrainReturn(w) ==
    LET worker == workers[w]
    IN  /\ worker.pc = "return"
        /\ workers' = [workers EXCEPT ![w] =
                Responding(worker, [status |-> "completed",
                                    results |-> worker.results])]
        /\ UNCHANGED <<dbVars, dowhy, earlier, call, result, files, mlModels, loaded, retrains>>

\* MoodPredictor.predict / HabitPredictor.predict on a fresh predictor.
StartPredict(w) ==
    \E user_id \in Users, model_name \in ModelNames :
        /\ workers[w] = IdleWorker
        /\ workers' = [workers EXCEPT ![w] =
                [pc |-> "exists", op |-> "predict", user_id |-> user_id,
                 model_name |-> model_name]]
        /\ UNCHANGED <<dbVars, dowhy, earlier, call, result, files, mlModels, loaded, retrains>>

\* _load_model: os.path.exists(model_path); without the file predict
\* answers "Model not trained".
LoadExists(w) ==
    LET worker == workers[w]
    IN  /\ worker.pc = "exists"
        /\ workers' = [workers EXCEPT ![w] =
                IF files[ModelPath(worker.model_name)] = NoFile
                THEN Responding(worker, [prediction |-> "None",
                                         error |-> "Model not trained"])
                ELSE [worker EXCEPT !.pc = "load"]]
        /\ UNCHANGED <<dbVars, dowhy, earlier, call, result, files, mlModels, loaded, retrains>>

\* _load_model: open(model_path, "rb") and pickle.load, then the model's
\* prediction.  pickle.load raises on a file that is not whole.
LoadModel(w) ==
    LET worker == workers[w]
        content == files[ModelPath(worker.model_name)]
    IN  /\ worker.pc = "load"
        /\ loaded' = [loaded EXCEPT ![w] = content]
        /\ workers' = [workers EXCEPT ![w] =
                Responding(worker,
                    IF content.kind = "complete"
                    THEN [prediction |-> "value", run |-> content.run]
                    ELSE Raised("UnpicklingError"))]
        /\ UNCHANGED <<dbVars, dowhy, earlier, call, result, files, mlModels, retrains>>

\* MLService.get_model_performance: the user's rows with is_active set.
ActiveModels(user_id) ==
    SelectSeq(mlModels, LAMBDA row : row.user_id = user_id /\ row.is_active)

GetModelPerformance(w) ==
    \E user_id \in Users :
        /\ workers[w] = IdleWorker
        /\ workers' = [workers EXCEPT ![w] =
                Responding([pc |-> "query", op |-> "get_model_performance",
                            user_id |-> user_id],
                           [models |-> ActiveModels(user_id),
                            total_models |-> Len(ActiveModels(user_id))])]
        /\ UNCHANGED <<dbVars, dowhy, earlier, call, result, files, mlModels, loaded, retrains>>

\* The response leaves; the predictor object of the request is dropped.
RespondTrain(w) ==
    /\ workers[w].pc = "respond"
    /\ workers' = [workers EXCEPT ![w] = IdleWorker]
    /\ loaded' = [loaded EXCEPT ![w] = NothingLoaded]
    /\ UNCHANGED <<dbVars, dowhy, earlier, call, result, files, mlModels, retrains>>

\* The databases retraining starts from: user 1 below or at the mood
\* trainer's minimum, user 2 above both minimums.
InitTrain ==
    /\ habits = HabitTable
    /\ moodLogs \in {<<[user_id |-> 1, dow |-> 0, mood_value |-> 5,
                        recent |-> TRUE, n |-> n]>> \o OtherMood : n \in {5, 30}}
    /\ habitLogs = <<[user_id |-> 1, habit_id |-> 1, dow |-> 0, completed |-> TRUE,
                      hour |-> NoHour, n |-> 5]>> \o OtherHabitLogs
    /\ journal = OtherJournal
    /\ call = NoCall
    /\ result = NoCall
    /\ InitStore

NextTrain ==
    \E w \in Workers :
        \/ StartRetrain(w)
        \/ TrainCheck(w)
        \/ TrainFit(w)
        \/ TrainOpen(w)
        \/ TrainDump(w)
        \/ TrainCommit(w)
        \/ RetrainReturn(w)
        \/ StartPredict(w)
        \/ LoadExists(w)
        \/ LoadModel(w)
        \/ GetModelPerformance(w)
        \/ RespondTrain(w)

SpecTrain == InitTrain /\ [][NextTrain]_vars

----------------------------------------------------------------------------
(* What the claims speak of *)

Caller == call.user_id
MoodN == Rows(OfUser(moodLogs, Caller))
HabitFound == \E h \in habits : h.user_id = Caller /\ h.habit_name = call.habit_name
HabitN ==
    Rows(SelectSeq(habitLogs, LAMBDA r :
        /\ r.user_id = Caller
        /\ \E h \in habits : /\ h.user_id = Caller
                             /\ h.habit_name = call.habit_name
                             /\ h.id = r.habit_id))
\* The entries forecast_energy works on: at most the 90 newest with a level.
EnergyN ==
    LET n == Rows(SelectSeq(journal, LAMBDA r : r.user_id = Caller /\ r.energy_level # NULL))
    IN  IF n > 90 THEN 90 ELSE n

Returned == "raised" \notin DOMAIN result
Has(key) == key \in DOMAIN result

\* The tier StrategySelector names for (domain, n).
ClaimedTier(domain, n) ==
    IF n < (CASE domain = "mood" -> 30 [] domain = "habit" -> 20
              [] domain = "energy" -> 40 [] OTHER -> 10) THEN "Baseline"
    ELSE IF n < 100 THEN "Simple"
    ELSE IF n < 365 THEN "Ensemble"
    ELSE "AdvancedEnsemble"

\* The tier whose code served the call, read off the result.
TierTaken ==
    CASE call.op = "predict_mood" ->
            IF result.method = "simple_average" THEN "Baseline"
            ELSE IF call.fit = "not run" THEN "Simple"
            ELSE "Ensemble"
      [] call.op = "predict_habit_success" ->
            IF result.method \in {"no_data", "overall_historical"} THEN "Baseline"
            ELSE "Simple"
      [] call.op = "forecast_energy" ->
            IF result.method = "average" THEN "Baseline" ELSE "Simple"

\* C1 (as claimed): tier selection is a total function of (domain, n) -
\* Baseline below the domain's minimum, Simple from the minimum to 99,
\* Ensemble from 100 to 364, AdvancedEnsemble from 365 (the same model as
\* Ensemble) - so every prediction call is served by the tier of its
\* domain and sample count.  The code has no Ensemble tier for habits.
C1_TierIsClaimedTier ==
    LET Same(taken, claimed) ==
            \/ taken = claimed
            \/ taken = "Ensemble" /\ claimed = "AdvancedEnsemble"
    IN  /\ (call.op = "predict_mood" /\ ParsesAsDate(call.target_date))
                => Same(TierTaken, ClaimedTier("mood", MoodN))
        /\ (call.op = "predict_habit_success" /\ HabitFound /\ Returned)
                => Same(TierTaken, ClaimedTier("habit", HabitN))
        /\ call.op = "forecast_energy"
                => Same(TierTaken, ClaimedTier("energy", EnergyN))

BaselineMethods == {"simple_average", "overall_historical", "no_data", "average"}

\* C2: below the domain's minimum (mood 30, habit 20, energy 40) the call
\* returns a baseline method; mood: confidence at most 0.3 and
\* use_prediction false; habit: confidence at most min(n/30, 0.8), and
\* prediction 0.5 with confidence 0 when there is no log; energy:
\* confidence 0.3 on every forecast day.
C2_BelowMinimumIsBaseline ==
    /\ (call.op = "predict_mood" /\ MoodN < 30) =>
            /\ result.method \in BaselineMethods
            /\ FLe(result.confidence, Frac(3, 10))
            /\ result.use_prediction = FALSE
    /\ (call.op = "predict_habit_success" /\ HabitFound /\ HabitN < 20) =>
            /\ result.method \in BaselineMethods
            /\ FLe(result.confidence, Frac(HabitN, 30))
            /\ FLe(result.confidence, Frac(8, 10))
            /\ HabitN = 0 => /\ FEq(result.prediction, Frac(1, 2))
                             /\ FEq(result.confidence, Frac(0, 1))
    /\ (call.op = "forecast_energy" /\ EnergyN < 40) =>
            /\ result.method \in BaselineMethods
            /\ Len(result.forecast) = call.days_ahead
            /\ \A i \in 1..Len(result.forecast) :
                    FEq(result.forecast[i].confidence, Frac(3, 10))

\* C2's case: each domain served below its minimum with some data.
C2_Witness ==
    \/ call.op = "predict_mood" /\ MoodN \in 1..29
    \/ call.op = "predict_habit_success" /\ HabitFound /\ HabitN \in 1..19
    \/ call.op = "forecast_energy" /\ EnergyN \in 1..39 /\ call.days_ahead > 0

PredictionMethods ==
    {"default", "simple_average", "day_of_week_average", "overall_average",
     "historical_baseline", "random_forest", "overall_historical", "no_data"}

\* C3 (as claimed): every mood or habit prediction call returns a
\* PredictionResult with prediction, confidence, method, factors and
\* use_prediction, confidence in [0, 1] and method one of the eight listed.
C3_WellFormedResult ==
    call.op \in {"predict_mood", "predict_habit_success"} =>
        /\ Returned
        /\ {"prediction", "confidence", "method", "factors", "use_prediction"}
                \subseteq DOMAIN result
        /\ FLe(Frac(0, 1), result.confidence)
        /\ FLe(result.confidence, Frac(1, 1))
        /\ result.method \in PredictionMethods

\* The caller's mood logs, and those on the target date's weekday.
CallerMoods == SelectSeq(moodLogs, LAMBDA r : r.user_id = Caller)
CallerMoodsOnTarget ==
    SelectSeq(moodLogs, LAMBDA r : r.user_id = Caller /\ r.dow = call.target_date.weekday)

\* A call served by the Simple tier's chain: predict_mood with 30 <= n < 100
\* and a date that parses, or _mood_baseline itself.
SimpleTierCall ==
    \/ call.op = "mood_baseline"
    \/ call.op = "predict_mood" /\ MoodN >= 30 /\ MoodN < 100
            /\ ParsesAsDate(call.target_date)

\* The chain's confidence and use_prediction, the same in C4 as claimed and
\* as amended.
SimpleChainConfidence ==
    LET cnt == Rows(CallerMoodsOnTarget)
        total == Rows(CallerMoods)
    IN  /\ cnt > 0 =>
                /\ result.method = "day_of_week_average"
                /\ FEq(result.confidence, IF cnt >= 8 THEN Frac(8, 10) ELSE Frac(cnt, 10))
        /\ (cnt = 0 /\ total > 0) =>
                /\ result.method = "overall_average"
                /\ FEq(result.confidence, IF total >= 12 THEN Frac(6, 10) ELSE Frac(total, 20))
        /\ total = 0 =>
                /\ result.method = "default"
                /\ FEq(result.prediction, Frac(7, 1))
                /\ FEq(result.confidence, Frac(1, 10))
        /\ call.op = "predict_mood" =>
                result.use_prediction = FLe(call.threshold, result.confidence)

\* x is s/n rounded to one decimal: a number of tenths within half a tenth.
IsMeanToOneDecimal(x, s, n) ==
    /\ x[2] = 10
    /\ 2 * (10 * s - x[1] * n) <= n
    /\ 2 * (x[1] * n - 10 * s) <= n

\* C4 (as claimed): the Simple tier predicts the mean of the logs on the
\* target weekday with confidence min(count/10, 0.8), else the overall mean
\* with confidence min(total/20, 0.6), else 7.0 with confidence 0.1, and
\* use_prediction is confidence >= threshold.
C4_SimpleChainExactMean ==
    SimpleTierCall =>
        /\ SimpleChainConfidence
        /\ Rows(CallerMoodsOnTarget) > 0 =>
                FEq(result.prediction,
                    Frac(MoodSum(CallerMoodsOnTarget), Rows(CallerMoodsOnTarget)))
        /\ (Rows(CallerMoodsOnTarget) = 0 /\ Rows(CallerMoods) > 0) =>
                FEq(result.prediction, Frac(MoodSum(CallerMoods), Rows(CallerMoods)))

\* C4 (amended): as claimed, with the prediction the mean rounded to one
\* decimal place.
C4_SimpleChainRoundedMean ==
    SimpleTierCall =>
        /\ SimpleChainConfidence
        /\ Rows(CallerMoodsOnTarget) > 0 =>
                IsMeanToOneDecimal(result.prediction, MoodSum(CallerMoodsOnTarget),
                                   Rows(CallerMoodsOnTarget))
        /\ (Rows(CallerMoodsOnTarget) = 0 /\ Rows(CallerMoods) > 0) =>
                IsMeanToOneDecimal(result.prediction, MoodSum(CallerMoods),
                                   Rows(CallerMoods))

\* C4's case: predict_mood serves a request in the Simple tier from a mean
\* that is not a whole number of tenths.
C4_Witness ==
    /\ call.op = "predict_mood"
    /\ SimpleTierCall
    /\ LET used == IF Rows(CallerMoodsOnTarget) > 0 THEN CallerMoodsOnTarget
                   ELSE CallerMoods
       IN  (10 * MoodSum(used)) % Rows(used) # 0

\* C5 (as claimed): when the fit or the prediction of the ensemble fails,
\* predict_mood returns what the Simple tier returns for the same user and
\* date: its prediction, confidence and method, and use_prediction =
\* (confidence >= threshold); nothing is raised.
C5_FitFailureGivesSimpleResult ==
    (call.op = "predict_mood" /\ call.fit = "failed") =>
        LET simple == MoodSimpleResult(moodLogs, Caller, call.target_date.weekday,
                                       call.threshold)
        IN  /\ Returned
            /\ result.prediction = simple.prediction
            /\ result.confidence = simple.confidence
            /\ result.method = simple.method
            /\ Has("use_prediction")
            /\ result.use_prediction = simple.use_prediction

----------------------------------------------------------------------------
(* What the claims about retraining speak of *)

\* The retrain requests whose response is on its way to the caller.
RetrainDone(w) == workers[w].pc = "respond" /\ workers[w].op = "retrain"

\* The models whose training failed in the request worker w has finished.
FailedTrainings(w) ==
    {m \in DOMAIN workers[w].results : workers[w].results[m].status = "error"}
        \cup (IF "raised" \in DOMAIN workers[w].response
              THEN {Head(workers[w].todo)} ELSE {})

\* Process w is training model m for user u.
InFlight(w, u, m) ==
    /\ workers[w].pc \in {"train", "fit", "save", "dump", "metadata"}
    /\ workers[w].user_id = u
    /\ Head(workers[w].todo) = m

\* The user's rows for a model that are reported as active.
ActiveRows(u, m) == SelectSeq(ActiveModels(u), LAMBDA row : row.model_name = m)

\* What the prediction path loads for a user and a model name.
ArtifactFor(user_id, model_name) == files[ModelPath(model_name)]

\* C6 (as claimed): when a training of a retrain request fails (too few
\* samples, a fit error, a failed write), the caller's response is an
\* explicit failure - not "completed" or "success" - and neither the model
\* file nor the metadata of that model carries anything of the failed
\* run.  The code answers "completed" around a nested error and truncates
\* the file before the write can fail.
C6_FailedRetrainIsReportedAndHarmless ==
    \A w \in Workers :
        (RetrainDone(w) /\ FailedTrainings(w) # {}) =>
            /\ \/ "raised" \in DOMAIN workers[w].response
               \/ workers[w].response.status \notin {"completed", "success"}
            /\ \A m \in FailedTrainings(w) :
                /\ \/ files[ModelPath(m)] = NoFile
                   \/ files[ModelPath(m)].run # workers[w].run
                /\ \A i \in 1..Len(mlModels) :
                       ~(mlModels[i].run = workers[w].run /\ mlModels[i].model_name = m)

\* C7 (as claimed): no two processes train the same (user, model name) at
\* once, and whenever no training of a key is under way, a whole model file
\* written for that user comes from the same run as the user's newest
\* active metadata row.  The code takes no lock.
C7_OneRetrainInFlightPerKey ==
    \A u \in Users, m \in ModelNames :
        /\ \A w1, w2 \in Workers :
               (InFlight(w1, u, m) /\ InFlight(w2, u, m)) => w1 = w2
        /\ ( /\ \A w \in Workers : ~InFlight(w, u, m)
             /\ files[ModelPath(m)] # NoFile
             /\ files[ModelPath(m)].kind = "complete"
             /\ files[ModelPath(m)].user_id = u )
           => /\ ActiveRows(u, m) # <<>>
              /\ ActiveRows(u, m)[Len(ActiveRows(u, m))].run = files[ModelPath(m)].run

\* C8 (as claimed): whatever _load_model reads is a whole artifact, the
\* previous one or the new one, never a partly written file.  The code
\* truncates the live file and writes into it.
C8_ReaderSeesWholeArtifact ==
    \A w \in Workers : loaded[w] # NothingLoaded => loaded[w].kind = "complete"

\* C9 (as claimed): at most one ml_models row per (user, model name) is
\* active.  The code adds an active row per training and never clears the
\* flag of an older one.
C9_OneActiveArtifactPerKey ==
    \A u \in Users, m \in ModelNames : Len(ActiveRows(u, m)) <= 1

\* C10 (as claimed): a step of a retrain for one user leaves what the
\* prediction path loads for every other user as it was.  The code names
\* the file after the model alone.
C10_RetrainKeepsOtherUsersArtifact ==
    [][\A w \in Workers :
          (workers[w].pc # "idle" /\ workers[w].op = "retrain"
                /\ workers'[w] # workers[w])
            => \A v \in Users \ {workers[w].user_id}, m \in ModelNames :
                    ArtifactFor(v, m)' = ArtifactFor(v, m)]_vars

----------------------------------------------------------------------------
(* The daily dataset.  calendar[i] is a run of n consecutive days on each  *)
(* of which the tables hold the same rows for user 1; the last day of the  *)
(* last run is yesterday.  Moods, energy, stress, sleep hours and social   *)
(* impact are carried in tenths; counts and minutes are integers.          *)

\* Python's None in a nullable column or a dataset row.
NoneValue == -99

\* The truth value Python gives a nullable number: None and 0 are false.
Truthy(x) == x # NoneValue /\ x # 0

RECURSIVE Flatten(_)
Flatten(runs) ==
    IF runs = <<>> THEN <<>>
    ELSE [i \in 1..Head(runs).n |-> Head(runs).day] \o Flatten(Tail(runs))

\* The window that ends a day early once the causal library has been looked
\* for.
WindowAfterLibraryCheck(cal, days) ==
    LET all == Flatten(cal)
        upto == IF dowhy = "None" \/ all = <<>> THEN Len(all) ELSE Len(all) - 1
        from == IF upto > days THEN upto - days + 1 ELSE 1
    IN  [i \in 1..(upto - from + 1) |->
            [date |-> from + i - 1 - Len(all), day |-> all[from + i - 1]]]

\* range(days) from today - days: the last `days` days before today.
Window(cal, days) ==
    LET all == Flatten(cal)
        from == IF Len(all) > days THEN Len(all) - days + 1 ELSE 1
    IN  [i \in 1..(Len(all) - from + 1) |->
            [date |-> from + i - 1 - Len(all), day |-> all[from + i - 1]]]

\* round(sum(xs) / len(xs), 1) in tenths
MeanTenths(xs) == Round1(SeqSum(xs), Len(xs))

\* .filter(..., JournalEntry.deleted_at.is_(None)).first()
FirstEntry(day) == SelectSeq(day.entries, LAMBDA e : ~e.deleted)

\* One pass of _build_daily_dataset's loop: the row of a day.
DailyRow(date, day) ==
    LET energies == SelectSeq([i \in 1..Len(day.moods) |-> day.moods[i].energy_level], Truthy)
        stresses == SelectSeq([i \in 1..Len(day.moods) |-> day.moods[i].stress_level], Truthy)
        entries == FirstEntry(day)
        fromMood ==
            IF day.moods # <<>> THEN
                [mood |-> MeanTenths([i \in 1..Len(day.moods) |-> day.moods[i].mood_value]),
                 energy |-> IF energies # <<>> THEN MeanTenths(energies) ELSE NoneValue,
                 stress |-> IF stresses # <<>> THEN MeanTenths(stresses) ELSE NoneValue]
            ELSE IF entries # <<>> THEN
                [mood |-> IF entries[1].mood = NoneValue THEN NoneValue ELSE 10 * entries[1].mood,
                 energy |-> IF entries[1].energy_level = NoneValue THEN NoneValue
                            ELSE 10 * entries[1].energy_level,
                 stress |-> IF entries[1].stress_level = NoneValue THEN NoneValue
                            ELSE 10 * entries[1].stress_level,
                 sleep_hours |-> entries[1].sleep_hours]
            ELSE <<>>
        sleep ==
            IF "sleep_hours" \notin DOMAIN fromMood /\ entries # <<>>
                    /\ Truthy(entries[1].sleep_hours)
            THEN [sleep_hours |-> entries[1].sleep_hours] ELSE <<>>
        deep == SelectSeq(day.contexts,
                          LAMBDA c : c.context_type \in {"deep_work", "coding", "writing"})
        drains == SelectSeq(day.interactions, LAMBDA x : x # NoneValue)
    IN  [date |-> date,
         habits_completed |-> Len(SelectSeq(day.habit_logs, LAMBDA done : done)),
         habits_total |-> Len(day.habit_logs),
         context_switches |-> Len(day.contexts),
         deep_work_minutes |->
            SeqSum([i \in 1..Len(deep) |->
                        IF deep[i].duration_minutes = NoneValue THEN 0
                        ELSE deep[i].duration_minutes]),
         interruptions |-> Len(SelectSeq(day.contexts, LAMBDA c : c.is_interruption)),
         social_interactions |-> Len(day.interactions),
         avg_social_impact |-> IF drains # <<>> THEN MeanTenths(drains) ELSE NoneValue]
        @@ fromMood @@ sleep

\* row.get(key)
Get(row, key) == IF key \in DOMAIN row THEN row[key] ELSE NoneValue

\* The loop without its last test: every day of the window gets a record.
BuildDailyDatasetZeroFill(cal, days) ==
    LET w == Window(cal, days)
    IN  [i \in 1..Len(w) |-> DailyRow(w[i].date, w[i].day)]

\* CausalInferenceService._build_daily_dataset
BuildDailyDataset(cal, days) ==
    LET w == Window(cal, days)
        rows == [i \in 1..Len(w) |-> DailyRow(w[i].date, w[i].day)]
    IN  SelectSeq(rows, LAMBDA row : Get(row, "mood") # NoneValue)

----------------------------------------------------------------------------
(* The calendars of the causal analysis.  A day is described by the rows   *)
(* the five tables hold for it.                                            *)

\* Runs of equal days in an initial calendar.
MaxDayRuns == 3

MoodLogRow(mood_value, energy_level, stress_level) ==
    [mood_value |-> mood_value, energy_level |-> energy_level,
     stress_level |-> stress_level]

EntryRow(mood, energy_level, stress_level, sleep_hours, deleted) ==
    [mood |-> mood, energy_level |-> energy_level, stress_level |-> stress_level,
     sleep_hours |-> sleep_hours, deleted |-> deleted]

ContextRow(context_type, duration_minutes, is_interruption) ==
    [context_type |-> context_type, duration_minutes |-> duration_minutes,
     is_interruption |-> is_interruption]

\* A mood log of 5, a journal entry with 7.3 hours of sleep, a missed habit.
LowDay ==
    [moods |-> <<MoodLogRow(5, 4, NoneValue)>>,
     entries |-> <<EntryRow(8, NoneValue, NoneValue, 73, FALSE)>>,
     habit_logs |-> <<FALSE>>,
     contexts |-> <<>>,
     interactions |-> <<>>]

\* No mood log: the journal entry gives mood 6; an interruption, an
\* interaction without a rating.
MidDay ==
    [moods |-> <<>>,
     entries |-> <<EntryRow(6, 5, NoneValue, 73, FALSE)>>,
     habit_logs |-> <<TRUE, TRUE>>,
     contexts |-> <<ContextRow("admin", NoneValue, TRUE)>>,
     interactions |-> <<NoneValue>>]

\* Two mood logs averaging 7, eight hours of sleep, an hour of deep work.
HighDay ==
    [moods |-> <<MoodLogRow(8, 7, 3), MoodLogRow(6, NoneValue, 3)>>,
     entries |-> <<EntryRow(NoneValue, NoneValue, NoneValue, 80, FALSE)>>,
     habit_logs |-> <<TRUE, FALSE>>,
     contexts |-> <<ContextRow("deep_work", 60, FALSE)>>,
     interactions |-> <<2>>]

\* No mood anywhere: a deleted entry with a mood, a live entry without one.
BlankDay ==
    [moods |-> <<>>,
     entries |-> <<EntryRow(9, NoneValue, NoneValue, 80, TRUE),
                   EntryRow(NoneValue, NoneValue, NoneValue, 80, FALSE)>>,
     habit_logs |-> <<TRUE>>,
     contexts |-> <<>>,
     interactions |-> <<>>]

DayKinds == {LowDay, MidDay, HighDay, BlankDay}

\* The lengths a run of each kind of day can have.
DayRunLens(day) ==
    IF day = LowDay THEN {6, 8}
    ELSE IF day = MidDay THEN {2, 8}
    ELSE IF day = HighDay THEN {2, 4}
    ELSE {2}

DayRun == UNION {[n : DayRunLens(day), day : {day}] : day \in DayKinds}

Calendars == UNION {[1..k -> DayRun] : k \in 0..MaxDayRuns}

\* The server starts with an untouched service object and no predictions.
InitCausalServer ==
    /\ calendar \in Calendars
    /\ moodLogs = <<>>
    /\ habits = {}
    /\ habitLogs = <<>>
    /\ journal = <<>>
    /\ call = NoCall
    /\ result = NoCall
    /\ files = [path \in {ModelPath(m) : m \in ModelNames} |-> NoFile]
    /\ mlModels = <<>>
    /\ workers = [w \in Workers |-> IdleWorker]
    /\ loaded = [w \in Workers |-> NothingLoaded]
    /\ retrains = 0
    /\ predictions = <<>>
    /\ dowhy = "None"

InitCausal == InitCausalServer /\ earlier = Unobserved

\* The windows the endpoints ask for: the default 90 days, and 12 days.
WindowDays == {12, 90}

causalFrame == <<moodLogs, habits, habitLogs, journal, calendar,
                 files, mlModels, workers, loaded, retrains>>

\* _build_daily_dataset called on its own, as the unit the analyses share.
BuildDailyDatasetCall ==
    \E days \in WindowDays :
        /\ Idle
        /\ call' = [op |-> "_build_daily_dataset", days |-> days]
        /\ result' = BuildDailyDataset(calendar, days)
        /\ UNCHANGED <<causalFrame, predictions, dowhy, earlier>>

(* get_correlations.  The coefficient is computed exactly, as the square   *)
(* p/q of Pearson's r and its sign; the floats of numpy are followed where *)
(* they decide an outcome.                                                 *)

Features == <<"energy", "stress", "sleep_hours", "habits_completed",
              "context_switches", "deep_work_minutes", "interruptions",
              "social_interactions", "avg_social_impact">>

\* The lengths at which the binary64 mean of a series of equal values 7.3
\* differs from 7.3 (numpy's pairwise sum, then the division), so that
\* np.std of the series is not 0.  Whole numbers and 8.0 are exact at
\* every length.
InexactLens73 ==
    {7, 9, 13, 14, 15, 18, 19, 20, 21, 22, 23, 26, 27, 28, 29, 30, 31, 34, 35,
     36, 37, 38, 39, 41, 42, 43, 44, 45, 46, 47, 52, 53, 54, 55, 56, 62, 63,
     64, 65, 66} \cup 71..90

\* np.std(arr) == 0
StdIsZero(xs) ==
    /\ \A i \in 1..Len(xs) : xs[i] = xs[1]
    /\ ~(xs[1] = 73 /\ Len(xs) \in InexactLens73)

\* The series moved to start at 0 and divided by the common divisor of its
\* values: Pearson's r is unchanged, and the sums stay small.
Normalised(xs) ==
    LET lo == CHOOSE x \in {xs[i] : i \in 1..Len(xs)} :
                  \A i \in 1..Len(xs) : x <= xs[i]
        RECURSIVE Divisor(_)
        Divisor(i) == IF i = 0 THEN 0 ELSE GCD(xs[i] - lo, Divisor(i - 1))
        g == IF Divisor(Len(xs)) = 0 THEN 1 ELSE Divisor(Len(xs))
    IN  [i \in 1..Len(xs) |-> (xs[i] - lo) \div g]

\* np.corrcoef(m_arr, v_arr)[0, 1] of two series that both vary: the sign
\* of r and r * r = p / q in lowest terms.
Pearson(ms, vs) ==
    LET Abs(c) == IF c < 0 THEN -c ELSE c
        Lowest(sign, p, q) ==
            [sign |-> sign, p |-> p \div GCD(p, q), q |-> q \div GCD(p, q)]
        Square(cxy, cxx, cyy, ga, gb) ==
            Lowest(IF cxy > 0 THEN 1 ELSE IF cxy < 0 THEN -1 ELSE 0,
                   (Abs(cxy) \div ga) * (Abs(cxy) \div gb),
                   (cxx \div ga) * (cyy \div gb))
        Ratio(cxy, cxx, cyy) ==
            Square(cxy, cxx, cyy, GCD(Abs(cxy), cxx), GCD(Abs(cxy), cyy))
        Moments(x, y, n) ==
            Ratio(n * SeqSum([i \in 1..n |-> x[i] * y[i]]) - SeqSum(x) * SeqSum(y),
                  n * SeqSum([i \in 1..n |-> x[i] * x[i]]) - SeqSum(x) * SeqSum(x),
                  n * SeqSum([i \in 1..n |-> y[i] * y[i]]) - SeqSum(y) * SeqSum(y))
    IN  Moments(Normalised(ms), Normalised(vs), Len(ms))

\* abs(round(corr, 3)) in thousandths, for corr * corr = p / q <= 1.  A
\* coefficient exactly half-way between two thousandths is computed a
\* rounding residue above or below the half.
Round3(p, q, residue) ==
    LET RECURSIVE Digits(_, _, _)
        \* floor(10^k * p / q) and the remainder, by long division
        Digits(k, acc, rem) ==
            IF k = 0 THEN <<acc, rem>>
            ELSE Digits(k - 1, 10 * acc + (10 * rem) \div q, (10 * rem) % q)
        f == Digits(8, 0, p)
        \* the largest k with k - 1/2 <= 1000 * sqrt(p / q)
        RECURSIVE Search(_, _)
        Search(lo, hi) ==
            IF lo = hi THEN lo
            ELSE LET mid == (lo + hi + 1) \div 2
                 IN  IF 25 * (2 * mid - 1) * (2 * mid - 1) <= f[1]
                     THEN Search(mid, hi) ELSE Search(lo, mid - 1)
        k == Search(0, 1000)
    IN  IF /\ k > 0
           /\ f[2] = 0
           /\ 25 * (2 * k - 1) * (2 * k - 1) = f[1]
           /\ residue < 0
        THEN k - 1 ELSE k

\* _correlation_strength, of the coefficient with square p / q.  A
\* coefficient that is exactly a threshold is computed a rounding residue
\* above or below it.
CorrelationStrength(p, q, residue) ==
    LET AtLeast(a, b) == 100 * p > a * q \/ (100 * p = a * q /\ residue > 0)
    IN  IF AtLeast(49, 100) THEN "strong"
        ELSE IF AtLeast(16, 100) THEN "moderate"
        ELSE IF AtLeast(4, 100) THEN "weak"
        ELSE "negligible"

\* pairs: the moods and the values of a feature on the days where the
\* feature is present.
FeaturePairs(dataset, feature) ==
    SelectSeq([i \in 1..Len(dataset) |-> <<dataset[i].mood, Get(dataset[i], feature)>>],
              LAMBDA pr : pr[2] # NoneValue)

\* One pass of the loop over the features: the record appended, if any.
\* residue is the sign of the rounding residue of numpy's sums: it is the
\* sign of the coefficient of a series whose np.std is not 0 though its
\* values are equal or whose covariance with the mood is exactly 0, and it
\* decides abs(t_stat) > 2.0 when t is exactly 2.
FeatureCorrelation(dataset, feature, residue) ==
    LET Constant(xs) == \A i \in 1..Len(xs) : xs[i] = xs[1]
        Record(r, n) ==
            [feature |-> feature,
             correlation |-> r.sign * Round3(r.p, r.q, residue),
             strength |-> CorrelationStrength(r.p, r.q, residue),
             direction |-> IF r.sign > 0 \/ (r.sign = 0 /\ residue > 0)
                           THEN "positive" ELSE "negative",
             significant |-> \/ r.p = r.q
                             \/ r.p * (n + 2) > 4 * r.q
                             \/ r.p * (n + 2) = 4 * r.q /\ residue > 0,
             sample_size |-> n]
        Of(ms, vs, n) ==
            IF n < 5 THEN <<>>
            ELSE IF StdIsZero(ms) \/ StdIsZero(vs) THEN <<>>
            ELSE IF Constant(ms) \/ Constant(vs) THEN
                <<[feature |-> feature, correlation |-> 0, strength |-> "negligible",
                   direction |-> IF residue > 0 THEN "positive" ELSE "negative",
                   significant |-> FALSE, sample_size |-> n]>>
            ELSE <<Record(Pearson(ms, vs), n)>>
        Split(pairs) ==
            Of([i \in 1..Len(pairs) |-> pairs[i][1]],
               [i \in 1..Len(pairs) |-> pairs[i][2]], Len(pairs))
    IN  Split(FeaturePairs(dataset, feature))

\* A sort by magnitude that puts a record ahead of the earlier records of
\* the same magnitude.
SortByAbsCorrelationUnstable(records) ==
    LET Abs(x) == IF x < 0 THEN -x ELSE x
        RECURSIVE Sorted(_)
        Sorted(k) ==
            IF k = 0 THEN <<>>
            ELSE LET before == Sorted(k - 1)
                     x == records[k]
                     ahead == Cardinality({i \in 1..Len(before) :
                                 Abs(before[i].correlation) > Abs(x.correlation)})
                 IN  SubSeq(before, 1, ahead) \o <<x>>
                        \o SubSeq(before, ahead + 1, Len(before))
    IN  Sorted(Len(records))

\* correlations.sort(key=lambda x: abs(x["correlation"]), reverse=True):
\* a stable sort.
SortByAbsCorrelation(records) ==
    LET Abs(x) == IF x < 0 THEN -x ELSE x
        RECURSIVE Sorted(_)
        Sorted(k) ==
            IF k = 0 THEN <<>>
            ELSE LET before == Sorted(k - 1)
                     x == records[k]
                     ahead == Cardinality({i \in 1..Len(before) :
                                 Abs(before[i].correlation) >= Abs(x.correlation)})
                 IN  SubSeq(before, 1, ahead) \o <<x>>
                        \o SubSeq(before, ahead + 1, Len(before))
    IN  Sorted(Len(records))

\* CausalInferenceService.get_correlations
GetCorrelations(cal, days, residue) ==
    LET dataset == BuildDailyDataset(cal, days)
        RECURSIVE Loop(_)
        Loop(k) == IF k = 0 THEN <<>>
                   ELSE Loop(k - 1) \o FeatureCorrelation(dataset, Features[k], residue)
    IN  IF Len(dataset) < 10 THEN
            [correlations |-> <<>>, sample_size |-> Len(dataset),
             message |-> "Need at least 10 days of data for correlation analysis."]
        ELSE
            [correlations |-> SortByAbsCorrelation(Loop(Len(Features))),
             sample_size |-> Len(dataset), period_days |-> days]

\* The signs the residue can take; a residue of 0 reads as "negative".
Residues == {-1, 1}

GetCorrelationsCall ==
    \E days \in WindowDays, residue \in Residues :
        /\ Idle
        /\ call' = [op |-> "get_correlations", days |-> days, residue |-> residue]
        /\ result' = GetCorrelations(calendar, days, residue)
        /\ earlier' = IF earlier = NoCall
                      THEN [days |-> days, residue |-> residue, dowhy |-> dowhy,
                            result |-> result']
                      ELSE earlier
        /\ UNCHANGED <<causalFrame, predictions, dowhy>>

----------------------------------------------------------------------------
(* get_causal_analysis.  Means, effects and Cohen's d are exact fractions  *)
(* of the integer sums; what is reported is rounded as the code rounds it, *)
(* in hundredths.                                                          *)

\* The columns carried in tenths; the others are counts.
Scale(key) ==
    IF key \in {"mood", "energy", "stress", "sleep_hours", "avg_social_impact"}
    THEN 10 ELSE 1

\* _effect_magnitude of a d with d * d = n / m
EffectMagnitude(n, m) ==
    IF 25 * n >= 16 * m THEN "large"
    ELSE IF 4 * n >= m THEN "medium"
    ELSE IF 25 * n >= m THEN "small"
    ELSE "negligible"

\* _interpret_effect: the parts the sentence is put together from; points
\* is f"{abs(effect):.1f}" in tenths.
InterpretEffect(treatment, outcome, positive, magnitude, points) ==
    [treatment_label |-> treatment, outcome_label |-> outcome,
     direction |-> IF positive THEN "higher" ELSE "lower",
     magnitude |-> magnitude, points |-> points]

\* A split that takes every row into the high group.
InHighGroupAlways(value, median2) == 2 * value >= median2 \/ value >= 0

\* d[treatment] >= median, for twice the median
InHighGroup(value, median2) == 2 * value >= median2

\* A low group that takes the rows at the median too.
InLowGroupOrAtMedian(value, median2) == 2 * value <= median2

\* d[treatment] < median, for twice the median
InLowGroup(value, median2) == 2 * value < median2

\* CausalInferenceService._stratified_analysis
StratifiedAnalysis(dataset, treatment, outcome) ==
    LET n == Len(dataset)
        tv == [i \in 1..n |-> dataset[i][treatment]]
        \* the k-th smallest treatment value
        Kth(k) == CHOOSE v \in {tv[i] : i \in 1..n} :
                      /\ Cardinality({i \in 1..n : tv[i] < v}) < k
                      /\ Cardinality({i \in 1..n : tv[i] <= v}) >= k
        \* twice np.median
        median2 == Kth((n + 1) \div 2) + Kth(n \div 2 + 1)
        high == SelectSeq(dataset, LAMBDA d : InHighGroup(d[treatment], median2))
        low == SelectSeq(dataset, LAMBDA d : InLowGroup(d[treatment], median2))
        ov == Normalised([i \in 1..n |-> dataset[i][outcome]])
        hs == SeqSum([i \in 1..Len(high) |-> high[i][outcome]])
        ls == SeqSum([i \in 1..Len(low) |-> low[i][outcome]])
        nh == Len(high)
        nl == Len(low)
        s == Scale(outcome)
        \* effect = e / (s * nh * nl)
        e == hs * nl - ls * nh
        \* the groups' outcomes, normalised
        hn == SelectSeq([i \in 1..n |-> <<tv[i], ov[i]>>],
                        LAMBDA pr : InHighGroup(pr[1], median2))
        ln == SelectSeq([i \in 1..n |-> <<tv[i], ov[i]>>],
                        LAMBDA pr : InLowGroup(pr[1], median2))
        Sum1(ps) == SeqSum([i \in 1..Len(ps) |-> ps[i][2]])
        Sum2(ps) == SeqSum([i \in 1..Len(ps) |-> ps[i][2] * ps[i][2]])
        \* n * n * np.std ** 2 of a group, and nh * nl * effect, normalised
        ah == nh * Sum2(hn) - Sum1(hn) * Sum1(hn)
        al == nl * Sum2(ln) - Sum1(ln) * Sum1(ln)
        en == Sum1(hn) * nl - Sum1(ln) * nh
        \* cohens_d squared = dn / dm; 0 when pooled_std is 0
        dn == IF ah = 0 /\ al = 0 THEN 0 ELSE 2 * en * en
        dm == IF ah = 0 /\ al = 0 THEN 1 ELSE ah * nl * nl + al * nh * nh
        g == GCD(dn, dm)
        RECURSIVE Digits(_, _, _)
        Digits(k, acc, rem) ==
            IF k = 0 THEN acc
            ELSE Digits(k - 1, 10 * acc + (10 * rem) \div (dm \div g),
                        (10 * rem) % (dm \div g))
        \* floor(40000 * dn / dm)
        f == 10000 * ((4 * (dn \div g)) \div (dm \div g))
                + Digits(4, 0, (4 * (dn \div g)) % (dm \div g))
        RECURSIVE Search(_, _)
        Search(lo, hi) ==
            IF lo = hi THEN lo
            ELSE LET mid == (lo + hi + 1) \div 2
                 IN  IF (2 * mid - 1) * (2 * mid - 1) <= f
                     THEN Search(mid, hi) ELSE Search(lo, mid - 1)
        d == Search(0, 10000)
        absE == IF e < 0 THEN -e ELSE e
    IN  IF treatment = "date" THEN Raised("TypeError")
        ELSE IF high = <<>> \/ low = <<>> THEN
            [error |-> "Cannot stratify data - all values on one side of median."]
        ELSE IF outcome = "date" THEN Raised("TypeError")
        ELSE
            [method |-> "stratified_analysis",
             treatment |-> treatment,
             outcome |-> outcome,
             median_split |-> Round2(median2, 2 * Scale(treatment)),
             high_group_mean |-> Round2(hs, s * nh),
             low_group_mean |-> Round2(ls, s * nl),
             estimated_effect |-> Round2(e, s * nh * nl),
             effect_size_cohens_d |-> IF e < 0 THEN -d ELSE d,
             effect_magnitude |-> EffectMagnitude(dn, dm),
             high_group_n |-> nh,
             low_group_n |-> nl,
             interpretation |->
                InterpretEffect(treatment, outcome, e > 0, EffectMagnitude(dn, dm),
                                Round2(absE, 10 * s * nh * nl)),
             caution |-> "This is an observational analysis, not a controlled experiment. Confounding variables may exist."]

\* What dowhy's linear regression estimates, in thousandths: the library's
\* answer, not computed here.
DowhyValues == {-250, 1200}

\* _dowhy_analysis when the library produces an estimate.
DowhyEstimate(dataset, treatment, outcome, value) ==
    LET keys == UNION {DOMAIN dataset[i] : i \in 1..Len(dataset)}
        present(k) == Cardinality({i \in 1..Len(dataset) :
                                      Get(dataset[i], k) # NoneValue})
        absV == IF value < 0 THEN -value ELSE value
    IN  [method |-> "dowhy_causal_inference",
         treatment |-> treatment,
         outcome |-> outcome,
         estimated_effect |-> value,
         confounders_controlled |->
            {k \in keys \ {treatment, outcome, "date"} :
                2 * present(k) > Len(dataset)},
         interpretation |->
            InterpretEffect(treatment, outcome, value > 0,
                            EffectMagnitude(absV * absV, 1000 * 1000),
                            Round2(absV, 10 * 1000)),
         caution |-> "Causal estimate assumes no unmeasured confounders."]

\* A minimum of 10 days where the code asks for 15.
TooFewDaysForCausalAtTen(dataset) == Len(dataset) < 10

\* len(dataset) < 15
TooFewDaysForCausal(dataset) == Len(dataset) < 15

\* Whether get_causal_analysis gets as far as _check_dowhy.
ReachesEstimate(cal, treatment, outcome) ==
    LET dataset == BuildDailyDataset(cal, 90)
    IN  /\ ~TooFewDaysForCausal(dataset)
        /\ Len(SelectSeq(dataset, LAMBDA d : Get(d, treatment) # NoneValue
                                              /\ Get(d, outcome) # NoneValue)) >= 10

\* get_causal_analysis with an estimator whose failure reaches the caller.
GetCausalAnalysisFailing(cal, treatment, outcome, library, value) ==
    LET dataset == BuildDailyDataset(cal, 90)
        valid == SelectSeq(dataset, LAMBDA d : Get(d, treatment) # NoneValue
                                                /\ Get(d, outcome) # NoneValue)
    IN  IF TooFewDaysForCausal(dataset) THEN
            [error |-> "Insufficient data",
             message |-> "Need at least 15 days of data for causal analysis.",
             sample_size |-> Len(dataset)]
        ELSE IF Len(valid) < 10 THEN
            [error |-> "Insufficient valid data",
             message |-> <<"Only", Len(valid), "days have both", treatment,
                           "and", outcome, "data.">>]
        ELSE IF library = "estimates" THEN
            DowhyEstimate(valid, treatment, outcome, value)
        ELSE IF library = "fails" THEN Raised("Exception")
        ELSE StratifiedAnalysis(valid, treatment, outcome)

\* CausalInferenceService.get_causal_analysis.  library says what the
\* import of dowhy and its estimator do: "absent", "fails" (any exception
\* inside _dowhy_analysis) or "estimates".
GetCausalAnalysis(cal, treatment, outcome, library, value) ==
    LET dataset == BuildDailyDataset(cal, 90)
        valid == SelectSeq(dataset, LAMBDA d : Get(d, treatment) # NoneValue
                                                /\ Get(d, outcome) # NoneValue)
    IN  IF TooFewDaysForCausal(dataset) THEN
            [error |-> "Insufficient data",
             message |-> "Need at least 15 days of data for causal analysis.",
             sample_size |-> Len(dataset)]
        ELSE IF Len(valid) < 10 THEN
            [error |-> "Insufficient valid data",
             message |-> <<"Only", Len(valid), "days have both", treatment,
                           "and", outcome, "data.">>]
        ELSE IF library = "estimates" THEN
            DowhyEstimate(valid, treatment, outcome, value)
        ELSE StratifiedAnalysis(valid, treatment, outcome)

\* (treatment, outcome) of the analysis requests: columns of the dataset,
\* the date column, and a name that is no column.
CausalRequests == {<<"sleep_hours", "mood">>, <<"habits_completed", "mood">>,
                   <<"avg_social_impact", "mood">>, <<"coffee", "mood">>,
                   <<"date", "mood">>, <<"habits_completed", "date">>}

\* POST /analyze.  _check_dowhy imports dowhy once and keeps the answer in
\* the service object.
GetCausalAnalysisCall ==
    /\ Idle
    /\ \E req \in CausalRequests :
        LET reached == ReachesEstimate(calendar, req[1], req[2])
            \* the regression has no estimate for a column of date strings
            numeric == "date" \notin {req[1], req[2]}
            libraries == IF ~reached \/ dowhy = "False" THEN {"absent"}
                         ELSE IF dowhy = "True"
                              THEN {"fails"} \cup (IF numeric THEN {"estimates"} ELSE {})
                         ELSE {"absent", "fails"}
                                  \cup (IF numeric THEN {"estimates"} ELSE {})
        IN  \E library \in libraries :
            \E value \in IF library = "estimates" THEN DowhyValues ELSE {0} :
                /\ call' = [op |-> "get_causal_analysis", treatment |-> req[1],
                            outcome |-> req[2],
                            library |-> IF reached THEN library ELSE "not asked"]
                /\ result' = GetCausalAnalysis(calendar, req[1], req[2], library, value)
                /\ dowhy' = IF reached /\ dowhy = "None"
                            THEN (IF library = "absent" THEN "False" ELSE "True")
                            ELSE dowhy
                /\ UNCHANGED <<causalFrame, predictions, earlier>>

\* The rows _stratified_analysis is called with on its own: for each
\* (habits_completed, mood) below, none, 2 or 4 rows, at least 10 in all as
\* get_causal_analysis guarantees.
StrataCells == <<[habits_completed |-> 0, mood |-> 50],
                 [habits_completed |-> 0, mood |-> 60],
                 [habits_completed |-> 0, mood |-> 70],
                 [habits_completed |-> 1, mood |-> 50],
                 [habits_completed |-> 1, mood |-> 60],
                 [habits_completed |-> 1, mood |-> 70]>>

StrataDatasets ==
    {Flatten([i \in 1..Len(StrataCells) |-> [n |-> counts[i], day |-> StrataCells[i]]]) :
        counts \in {c \in [1..Len(StrataCells) -> {0, 2, 4}] :
                       SeqSum(c) >= 10}}

StratifiedAnalysisCall ==
    \E dataset \in StrataDatasets :
        /\ Idle
        /\ call' = [op |-> "_stratified_analysis", dataset |-> dataset,
                    treatment |-> "habits_completed", outcome |-> "mood"]
        /\ result' = StratifiedAnalysis(dataset, "habits_completed", "mood")
        /\ UNCHANGED <<causalFrame, predictions, dowhy, earlier>>

\* The endpoint returns; the next request can be served.
RespondCausal ==
    /\ ~Idle
    /\ call' = NoCall
    /\ result' = NoCall
    /\ UNCHANGED <<causalFrame, predictions, dowhy, earlier>>

NextCausal ==
    \/ BuildDailyDatasetCall
    \/ GetCorrelationsCall
    \/ GetCausalAnalysisCall
    \/ RespondCausal

SpecCausal == InitCausal /\ [][NextCausal]_vars

\* _stratified_analysis on its own, over an empty database.
InitStrata == InitCausal /\ calendar = <<>>

NextStrata ==
    \/ StratifiedAnalysisCall
    \/ RespondCausal

SpecStrata == InitStrata /\ [][NextStrata]_vars

\* Runs of days in the calendar of a caller that keeps what it was sent.
MaxRepeatRuns == 2

\* The same server, with a caller that keeps the first correlations it is
\* sent and goes on asking.
InitRepeat ==
    /\ InitCausalServer
    /\ Len(calendar) <= MaxRepeatRuns
    /\ earlier = NoCall

SpecRepeat == InitRepeat /\ [][NextCausal]_vars

----------------------------------------------------------------------------
(* MLService: what the /predictions endpoints call.  It asks the adaptive  *)
(* predictor and stores what it answered in the predictions table.         *)

\* Prediction rows stored in one behaviour.
MaxPredictions == 1

\* result.get("prediction") is not None
HasPrediction(r) == "prediction" \in DOMAIN r

\* result.get(key, default)
GetOr(r, key, default) == IF key \in DOMAIN r THEN r[key] ELSE default

\* The Prediction row of a result; target_date has been parsed.
PredictionRow(user_id, prediction_type, target, target_date, r, model_name) ==
    [user_id |-> user_id,
     prediction_type |-> prediction_type,
     prediction_target |-> target,
     target_date |-> target_date.weekday,
     predicted_value |-> r.prediction,
     confidence |-> GetOr(r, "confidence", Frac(0, 1)),
     model_name |-> GetOr(r, "method", model_name),
     model_version |-> "1.0"]

\* gemini_service.explain_prediction: a text about the prediction.
ExplainPrediction(prediction_type, r) ==
    <<"explanation", prediction_type, r.prediction, GetOr(r, "confidence", Frac(0, 1))>>

\* MLService.predict_mood: the rows it adds and what it returns.
ServicePredictMood(logs, user_id, target_date, fit_fails, ml_value) ==
    LET r == AdaptivePredictMood(logs, user_id, target_date, DefaultThreshold,
                                 fit_fails, ml_value)
    IN  IF ~HasPrediction(r) THEN [added |-> <<>>, returned |-> r]
        ELSE IF ~ParsesAsDate(target_date) THEN
            [added |-> <<>>, returned |-> Raised("ValueError")]
        ELSE [added |-> <<PredictionRow(user_id, "mood", <<>>, target_date, r, "adaptive")>>,
              returned |-> IF GetOr(r, "use_prediction", TRUE)
                           THEN [k \in DOMAIN r \cup {"explanation"} |->
                                   IF k = "explanation" THEN ExplainPrediction("mood", r)
                                   ELSE r[k]]
                           ELSE r]

\* MLService.predict_habit_success
ServicePredictHabit(habitTable, logTable, user_id, habit_name, target_date, target_time) ==
    LET r == AdaptivePredictHabit(habitTable, logTable, user_id, habit_name,
                                  target_date, target_time)
    IN  IF ~HasPrediction(r) THEN [added |-> <<>>, returned |-> r]
        ELSE IF ~ParsesAsDate(target_date) THEN
            [added |-> <<>>, returned |-> Raised("ValueError")]
        ELSE [added |-> <<PredictionRow(user_id, "habit", <<habit_name>>, target_date,
                                        r, "baseline")>>,
              returned |-> r]

serviceFrame == <<moodLogs, habits, habitLogs, journal, calendar, storeVars, earlier>>

\* POST /predictions/mood
PredictMoodEndpoint ==
    \E user_id \in Users, target_date \in TargetDates,
       fit_fails \in BOOLEAN, ml_value \in MlValues :
        LET served == ServicePredictMood(moodLogs, user_id, target_date, fit_fails, ml_value)
        IN  /\ Idle
            /\ Len(predictions) + Len(served.added) <= MaxPredictions
            /\ call' = [op |-> "predict_mood", user_id |-> user_id,
                        target_date |-> target_date,
                        fit |-> IF ~ReachesFit(moodLogs, user_id, target_date) THEN "not run"
                                ELSE IF fit_fails THEN "failed" ELSE "fitted"]
            /\ result' = served.returned
            /\ predictions' = predictions \o served.added
            /\ UNCHANGED serviceFrame

\* POST /predictions/habit
PredictHabitEndpoint ==
    \E user_id \in Users, req \in HabitRequests :
        LET served == ServicePredictHabit(habits, habitLogs, user_id, req[1], req[2], req[3])
        IN  /\ Idle
            /\ Len(predictions) + Len(served.added) <= MaxPredictions
            /\ call' = [op |-> "predict_habit_success", user_id |-> user_id,
                        habit_name |-> req[1], target_date |-> req[2],
                        target_time |-> req[3]]
            /\ result' = served.returned
            /\ predictions' = predictions \o served.added
            /\ UNCHANGED serviceFrame

\* GET /predictions/energy
PredictEnergyEndpoint ==
    \E user_id \in Users, req \in EnergyRequests :
        /\ Idle
        /\ call' = [op |-> "get_energy_forecast", user_id |-> user_id,
                    days_ahead |-> req[1], today |-> req[2]]
        /\ result' = ForecastEnergy(journal, user_id, req[1], req[2])
        /\ UNCHANGED <<serviceFrame, predictions>>

\* The endpoint returns, or the fault reaches the framework.
RespondService ==
    /\ ~Idle
    /\ call' = NoCall
    /\ result' = NoCall
    /\ UNCHANGED <<serviceFrame, predictions>>

NextService ==
    \/ PredictMoodEndpoint
    \/ PredictHabitEndpoint
    \/ PredictEnergyEndpoint
    \/ RespondService

\* A database of at most one run of the caller's mood or habit logs.
InitService ==
    /\ Init
    /\ Len(moodLogs) <= 2
    /\ Len(habitLogs) <= 2
    /\ journal = OtherJournal

SpecService == InitService /\ [][NextService]_vars

----------------------------------------------------------------------------
(* C13: the daily dataset *)

\* Whether the tables resolve a mood for the day: mood logs exist (their
\* mean is the mood), or else the first live journal entry has a mood.
MoodResolved(day) ==
    \/ day.moods # <<>>
    \/ \E i \in 1..Len(day.entries) :
          /\ ~day.entries[i].deleted
          /\ day.entries[i].mood # NoneValue
          /\ \A j \in 1..(i - 1) : day.entries[j].deleted

DatasetReturned == call.op = "_build_daily_dataset"

\* C13: the dataset holds a record for a day only if that day's mood was
\* resolved (a day without mood logs and without a journal mood is left out,
\* not filled in), at most one record per day, and the records' dates are
\* strictly ascending.
C13_DatasetIsResolvedDaysAscending ==
    DatasetReturned =>
        LET w == Window(calendar, call.days)
        IN  /\ \A i \in 1..Len(result) :
                \E j \in 1..Len(w) :
                    /\ w[j].date = result[i].date
                    /\ MoodResolved(w[j].day)
                    /\ Get(result[i], "mood") # NoneValue
            /\ \A i \in 1..Len(result), j \in 1..Len(result) :
                i < j => result[i].date < result[j].date
            /\ Len(result) = Cardinality({j \in 1..Len(w) : MoodResolved(w[j].day)})

\* A window with resolved days on both sides of an unresolved one.
C13_Witness ==
    /\ DatasetReturned
    /\ Len(result) >= 2
    /\ \E i \in 1..(Len(result) - 1) : result[i + 1].date > result[i].date + 1
    /\ Len(Window(calendar, call.days)) = call.days

----------------------------------------------------------------------------
(* C14 to C17: the correlation list *)

CorrelationsReturned == call.op = "get_correlations"

\* Non-zero variance: the series takes two different values.
Varies(pairs, k) == \E i, j \in 1..Len(pairs) : pairs[i][k] # pairs[j][k]

\* C14: a feature appears in the list only if the dataset has at least 10
\* records and the feature has at least 5 pairs whose mood series and feature
\* series both have non-zero variance; with fewer than 10 records the list is
\* empty and a message says so; a zero-variance feature never appears.
C14_ListedFeatureHasVaryingPairs ==
    CorrelationsReturned =>
        LET dataset == BuildDailyDataset(calendar, call.days)
        IN  /\ Len(dataset) < 10 =>
                /\ result.correlations = <<>>
                /\ "message" \in DOMAIN result
            /\ \A i \in 1..Len(result.correlations) :
                LET pairs == FeaturePairs(dataset, result.correlations[i].feature)
                IN  /\ Len(dataset) >= 10
                    /\ Len(pairs) >= 5
                    /\ Varies(pairs, 1)
                    /\ Varies(pairs, 2)

\* The class of a coefficient given in thousandths.
StrengthClass(thousandths) ==
    IF thousandths >= 700 THEN "strong"
    ELSE IF thousandths >= 400 THEN "moderate"
    ELSE IF thousandths >= 200 THEN "weak"
    ELSE "negligible"

\* C15: every listed record's strength is the class of its reported
\* coefficient r (|r| >= 0.7 strong, >= 0.4 moderate, >= 0.2 weak, else
\* negligible), and it is significant exactly when |t| > 2.0 for
\* t = r * sqrt((n - 2) / (1 - r * r)), that is when r * r * (n + 2) > 4;
\* a reported r of 1.0 or -1.0 on n >= 10 pairs is strong and significant.
C15_StrengthIsClassOfReported ==
    CorrelationsReturned =>
        \A i \in 1..Len(result.correlations) :
            LET c == result.correlations[i]
                a == IF c.correlation < 0 THEN -c.correlation ELSE c.correlation
            IN  /\ c.strength = StrengthClass(a)
                /\ c.significant <=>
                        (a = 1000 \/ a * a * (c.sample_size + 2) > 4 * 1000 * 1000)
                /\ (a = 1000 /\ c.sample_size >= 10) =>
                        (c.strength = "strong" /\ c.significant)

\* The place of a listed record's feature in the order of evaluation.
FeatureIndex(record) == CHOOSE k \in 1..Len(Features) : Features[k] = record.feature

\* C16: the list is ordered by the magnitude of the reported coefficient,
\* largest first, and records of equal magnitude stay in the order in which
\* their features were evaluated.
C16_ListSortedByMagnitudeStably ==
    CorrelationsReturned =>
        \A i, j \in 1..Len(result.correlations) :
            i < j =>
                LET a == result.correlations[i].correlation
                    b == result.correlations[j].correlation
                    absA == IF a < 0 THEN -a ELSE a
                    absB == IF b < 0 THEN -b ELSE b
                IN  /\ absA >= absB
                    /\ absA = absB =>
                        FeatureIndex(result.correlations[i])
                            < FeatureIndex(result.correlations[j])

\* A list the sort has reordered, holding two records of equal magnitude.
C16_Witness ==
    /\ CorrelationsReturned
    /\ \E i, j \in 1..Len(result.correlations) :
        /\ i < j
        /\ FeatureIndex(result.correlations[i]) > FeatureIndex(result.correlations[j])
    /\ \E i, j \in 1..Len(result.correlations) :
        /\ i < j
        /\ result.correlations[i].correlation = result.correlations[j].correlation
        /\ result.correlations[i].correlation # 0

----------------------------------------------------------------------------
(* C18 to C20: the causal analysis *)

CausalReturned == call.op = "get_causal_analysis"

\* The days of the 90-day dataset, and those among them that have both the
\* treatment and the outcome of the request.
CausalDays == Len(BuildDailyDataset(calendar, 90))
CausalValidDays ==
    Len(SelectSeq(BuildDailyDataset(calendar, 90),
                  LAMBDA d : /\ Get(d, call.treatment) # NoneValue
                             /\ Get(d, call.outcome) # NoneValue))

IsInsufficient(r) ==
    /\ DOMAIN r \in {{"error", "message"}, {"error", "message", "sample_size"}}
    /\ r.error \in {"Insufficient data", "Insufficient valid data"}

\* C18: get_causal_analysis returns a structured insufficient-data result,
\* and no estimate, whenever the dataset has fewer than 15 days or fewer than
\* 10 days with both fields; an estimate or a stratification error comes only
\* when both minimums are met.
C18_InsufficientDataIsStructured ==
    CausalReturned =>
        /\ (CausalDays < 15 \/ CausalValidDays < 10) => IsInsufficient(result)
        /\ ("method" \in DOMAIN result
                \/ ("error" \in DOMAIN result /\ ~IsInsufficient(result)))
            => (CausalDays >= 15 /\ CausalValidDays >= 10)

\* Enough days, too few of them with the treatment.
C18_Witness ==
    /\ CausalReturned
    /\ CausalDays >= 15
    /\ CausalValidDays < 10
    /\ call.treatment = "avg_social_impact"
    /\ result.error = "Insufficient valid data"

StratifiedReturned == call.op = "_stratified_analysis"

\* C19: the reported estimated_effect of a stratified estimate equals the
\* reported high_group_mean minus the reported low_group_mean exactly.
C19_EffectIsDifferenceOfReportedMeans ==
    ((StratifiedReturned \/ CausalReturned) /\ "high_group_mean" \in DOMAIN result) =>
        result.estimated_effect = result.high_group_mean - result.low_group_mean

\* C20: when the treatment is the same on all rows the analysis returns the
\* "cannot stratify" error; every result is that error or an estimate, and
\* an estimate's two group sizes are at least 1 and add up to the number of
\* rows.
C20_EmptyGroupIsStratificationError ==
    StratifiedReturned =>
        LET rows == call.dataset
            constant == \A i, j \in 1..Len(rows) :
                            rows[i][call.treatment] = rows[j][call.treatment]
        IN  /\ constant => DOMAIN result = {"error"}
            /\ \/ DOMAIN result = {"error"}
               \/ /\ "method" \in DOMAIN result
                  /\ result.high_group_n >= 1
                  /\ result.low_group_n >= 1
                  /\ result.high_group_n + result.low_group_n = Len(rows)

\* A constant treatment over rows whose moods differ.
C20_Witness ==
    /\ StratifiedReturned
    /\ \A i \in 1..Len(call.dataset) : call.dataset[i].habits_completed = 1
    /\ \E i \in 1..Len(call.dataset) : call.dataset[i].mood # call.dataset[1].mood
    /\ DOMAIN result = {"error"}

----------------------------------------------------------------------------
(* C11 and C12: what a call hands back, and what it leaves behind *)

\* C11: every causal analysis call hands its caller a result object, for any
\* treatment and outcome name: no fault propagates, and a result that
\* reports an error has exactly the shape {error, message}, with at most the
\* sample size added.
C11_EveryCallReturnsResultObject ==
    CausalReturned =>
        /\ "raised" \notin DOMAIN result
        /\ "error" \in DOMAIN result =>
              {"error", "message"} \subseteq DOMAIN result

ServedPrediction ==
    call.op \in {"predict_mood", "predict_habit_success", "get_energy_forecast"}

\* C12: serving a mood, habit or energy prediction leaves every table, the
\* predictions table among them, and every object of the process as it was.
C12_PredictionCallsAreReadOnly ==
    [][ServedPrediction' => UNCHANGED <<dbVars, storeVars>>]_vars

----------------------------------------------------------------------------
(* C17: get_correlations asked again *)

\* The caller holds the first correlations it was sent, and has now been
\* sent correlations for the same window (the arithmetic of the build, the
\* residue, being what it was).
AskedAgain ==
    /\ CorrelationsReturned
    /\ "days" \in DOMAIN earlier
    /\ earlier.days = call.days
    /\ earlier.residue = call.residue

----------------------------------------------------------------------------
(* C21, C22 and C30: the estimators of the causal analysis *)

\* The rows of the request that have both its treatment and its outcome.
CausalValidRows ==
    SelectSeq(BuildDailyDataset(calendar, 90),
              LAMBDA d : /\ Get(d, call.treatment) # NoneValue
                         /\ Get(d, call.outcome) # NoneValue)

EstimateKeys ==
    {"method", "treatment", "outcome", "estimated_effect", "effect_size_cohens_d",
     "effect_magnitude", "high_group_mean", "low_group_mean", "high_group_n",
     "low_group_n", "interpretation", "caution"}

ObservationalCaution ==
    "This is an observational analysis, not a controlled experiment. Confounding variables may exist."

\* C22: a result of the causal analysis is an estimate with every key of an
\* estimate and the caution that the analysis is observational, or an error
\* with both error and message.
C22_ResultIsEstimateOrError ==
    (CausalReturned /\ "raised" \notin DOMAIN result) =>
        \/ /\ EstimateKeys \subseteq DOMAIN result
           /\ result.caution = ObservationalCaution
        \/ /\ {"error", "message"} \subseteq DOMAIN result
           /\ "method" \notin DOMAIN result

\* C30: the stratified analysis returns the "cannot stratify" error exactly
\* when more than half of the treatment values equal the smallest one (the
\* median is the minimum, no row is below it); otherwise both groups have
\* rows.
C30_CannotStratifyIffMedianIsMinimum ==
    StratifiedReturned =>
        LET rows == call.dataset
            n == Len(rows)
            atMin == {i \in 1..n : \A j \in 1..n :
                         rows[i][call.treatment] <= rows[j][call.treatment]}
        IN  /\ (DOMAIN result = {"error"}) <=> (2 * Cardinality(atMin) > n)
            /\ DOMAIN result # {"error"} =>
                   (result.high_group_n >= 1 /\ result.low_group_n >= 1)

\* The error for a treatment that is not constant: most rows at the
\* minimum, some above it.
C30_Witness ==
    /\ StratifiedReturned
    /\ DOMAIN result = {"error"}
    /\ \E i, j \in 1..Len(call.dataset) :
           call.dataset[i].habits_completed < call.dataset[j].habits_completed

----------------------------------------------------------------------------
(* C26 and C29: the detailed habit prediction *)

\* The logs predict_habit_success reads: the caller's, of the habit named.
CallerHabitLogs ==
    SelectSeq(habitLogs, LAMBDA r :
        /\ r.user_id = Caller
        /\ \E h \in habits : /\ h.user_id = Caller
                             /\ h.habit_name = call.habit_name
                             /\ h.id = r.habit_id)

\* A request that _habit_baseline serves.
DetailedHabitCall ==
    /\ call.op = "predict_habit_success"
    /\ HabitFound
    /\ HabitN >= 20
    /\ ParsesAsDate(call.target_date)

HourLogs == SelectSeq(CallerHabitLogs, LAMBDA r : r.hour = call.target_time)
HourUsed == call.target_time \notin {NoHour, BadTime} /\ Rows(HourLogs) > 0
WeekdayLogs == SelectSeq(CallerHabitLogs, LAMBDA r : r.dow = call.target_date.weekday)

\* The claimed value as a fraction <<numerator, denominator>>: the mean of
\* the overall rate and the weekday's rate (the overall rate alone without
\* weekday logs), averaged once more with the hour's rate when it is used.
ClaimedHabitMean ==
    LET Lowest(n, d) == <<n \div GCD(n, d), d \div GCD(n, d)>>
        AfterDow(a, b, c, d) == IF d > 0 THEN Lowest(a * d + c * b, 2 * b * d)
                                         ELSE Lowest(a, b)
        AfterHour(p, e, f) == IF HourUsed THEN Lowest(p[1] * f + e * p[2], 2 * p[2] * f)
                                          ELSE p
    IN  AfterHour(AfterDow(DoneRows(CallerHabitLogs), Rows(CallerHabitLogs),
                           DoneRows(WeekdayLogs), Rows(WeekdayLogs)),
                  DoneRows(HourLogs), Rows(HourLogs))

\* x is the fraction m rounded to two decimals: a number of hundredths
\* within half a hundredth of it.
IsToTwoDecimals(x, m) ==
    /\ x[2] = 100
    /\ 2 * (100 * m[1] - x[1] * m[2]) <= m[2]
    /\ 2 * (x[1] * m[2] - 100 * m[1]) <= m[2]

\* C26 (as claimed): with at least 20 logs the habit prediction equals the
\* unweighted mean of the overall rate and the target weekday's rate (the
\* overall rate alone when no log falls on that weekday), averaged once more
\* with the hour's rate when a target hour is given and logs at it exist.
C26_HabitPredictionIsExactMean ==
    DetailedHabitCall =>
        /\ result.method = "historical_baseline"
        /\ result.prediction[1] * ClaimedHabitMean[2]
              = ClaimedHabitMean[1] * result.prediction[2]

\* C26 (amended): as claimed, with the prediction that mean rounded to two
\* decimal places.
C26_HabitPredictionIsRoundedMean ==
    DetailedHabitCall =>
        /\ result.method = "historical_baseline"
        /\ IsToTwoDecimals(result.prediction, ClaimedHabitMean)

\* C26's case: weekday logs and hour logs both count, and the mean is not a
\* whole number of hundredths.
C26_Witness ==
    /\ DetailedHabitCall
    /\ Rows(WeekdayLogs) > 0
    /\ Rows(WeekdayLogs) < Rows(CallerHabitLogs)
    /\ HourUsed
    /\ (100 * ClaimedHabitMean[1]) % ClaimedHabitMean[2] # 0

\* C29: the streak is the number of completed logs from the newest log back
\* to the first one that is not completed; it is the result's streak field,
\* it is listed among the factors when it is above 0, and the prediction is
\* the same for the logs taken in the opposite order, where the streak is
\* another.
C29_StreakIsNewestCompletedRun ==
    DetailedHabitCall =>
        LET logs == CallerHabitLogs
            Reversed == [i \in 1..Len(logs) |-> logs[Len(logs) + 1 - i]]
        IN  /\ \E k \in 0..Len(logs) :
                  /\ \A i \in (k + 1)..Len(logs) : logs[i].completed
                  /\ k = 0 \/ ~logs[k].completed
                  /\ result.streak = Rows(SubSeq(logs, k + 1, Len(logs)))
            /\ (result.streak > 0) <=>
                  \E i \in 1..Len(result.factors) :
                      /\ result.factors[i][1] = "Current streak"
                      /\ result.factors[i][2] = result.streak
            /\ result.prediction
                  = HabitBaseline(Reversed, call.target_date.weekday,
                                  call.target_time).prediction

\* Completed logs after one that is not: the streak is the newer ones only,
\* and the opposite order has no streak.
C29_Witness ==
    /\ DetailedHabitCall
    /\ Len(CallerHabitLogs) = 2
    /\ ~CallerHabitLogs[1].completed
    /\ CallerHabitLogs[2].completed
    /\ result.streak = CallerHabitLogs[2].n
    /\ result.streak < Rows(CallerHabitLogs)

----------------------------------------------------------------------------
(* C27: the energy forecast above the energy minimum *)

\* The entries forecast_energy reads: the caller's newest 90 with an energy.
CallerEnergyEntries ==
    Newest(SelectSeq(OfUser(journal, Caller), LAMBDA r : r.energy_level # NULL), 90)

\* C27: with at least the energy minimum of entries (among the newest 90 with
\* an energy value) the forecast has one entry per day ahead; each entry's
\* energy is the mean of the entries on its weekday (the overall mean when
\* the weekday has none), its lower and upper band lies in [1, 10] with
\* lower <= energy <= upper, and its confidence is min(count / 90, 0.9).
C27_ForecastEntryHasMeanBandAndConfidence ==
    (call.op = "forecast_energy" /\ EnergyN >= ML_MIN_SAMPLES["energy"]) =>
        /\ Len(result.forecast) = call.days_ahead
        /\ \A i \in 1..Len(result.forecast) :
              LET entry == result.forecast[i]
                  onDay == OnDow(CallerEnergyEntries, (call.today + i) % 7)
                  used == IF Rows(onDay) > 0 THEN onDay ELSE CallerEnergyEntries
              IN  /\ {"energy", "lower", "upper", "confidence"} \subseteq DOMAIN entry
                  /\ FEq(entry.energy, Frac(EnergySum(used), Rows(used)))
                  /\ FLe(Frac(1, 1), entry.lower) /\ FLe(entry.lower, entry.energy)
                  /\ FLe(entry.energy, entry.upper) /\ FLe(entry.upper, Frac(10, 1))
                  /\ entry.confidence = FMin(Frac(Rows(CallerEnergyEntries), 90), Frac(9, 10))

----------------------------------------------------------------------------
(* generate_counterfactuals and suggest_experiments.  The slope of the     *)
(* fitted line is the exact fraction covariance / variance of the integer  *)
(* columns; a value that binary64 computes a rounding residue to one side  *)
(* of a threshold or of a half takes the side the residue names.           *)

\* round(p / q) for p >= 0 and q > 0
RoundNearest(p, q, residue) ==
    IF 2 * (p % q) > q \/ (2 * (p % q) = q /\ residue > 0)
    THEN (p \div q) + 1 ELSE p \div q

\* round(p / q) of either sign
RoundSigned(p, q, residue) ==
    IF p < 0 THEN -RoundNearest(-p, q, residue) ELSE RoundNearest(p, q, residue)

SeqMin(xs) == CHOOSE x \in {xs[i] : i \in 1..Len(xs)} : \A i \in 1..Len(xs) : x <= xs[i]
SeqMax(xs) == CHOOSE x \in {xs[i] : i \in 1..Len(xs)} : \A i \in 1..Len(xs) : x >= xs[i]

\* The common divisor of the distances of the values from the smallest.
RECURSIVE Spread(_, _)
Spread(xs, i) == IF i = 0 THEN 0 ELSE GCD(xs[i] - SeqMin(xs), Spread(xs, i - 1))

\* The projection left as the line gives it.
Unclamped(p, q) == <<p, q>>

\* max(1, min(10, predicted)) of p / q tenths, as a fraction
Clamp(p, q) == IF p > 100 * q THEN <<100, 1>>
               ELSE IF p < 10 * q THEN <<10, 1>>
               ELSE <<p, q>>

\* What the three counterfactual helpers share, after the pairs are chosen:
\* xs the treatment and ms the mood (in tenths) of the pairs, scale the
\* units of xs in one treatment unit, target in the units of xs, eps the
\* epsilon as a fraction, places the decimals the average treatment is
\* formatted to.  The scenario text is kept as its template's arguments.
\* residue decides the test of the slope and the rounding of predicted,
\* carry the rounding of change.  The result is the list of what is
\* returned: empty for None.  The pairs of the calendars below are whole
\* numbers and halves, whose sums binary64 holds exactly.
LinearCounterfactual(type, xs, ms, scale, target, eps, places, residue, carry) ==
    LET n == Len(xs)
        Abs(c) == IF c < 0 THEN -c ELSE c
        Dot(a, b) == SeqSum([i \in 1..Len(a) |-> a[i] * b[i]])
        \* predicted and change are fractions of tenths
        Reported(sm, sx, predicted, change) ==
            <<[type |-> type,
             scenario |-> [target |-> target, average |-> Frac(sx, scale * n),
                           places |-> places],
             current_avg |-> Round1(sm, 10 * n),
             predicted_avg |-> RoundNearest(predicted[1], predicted[2], residue),
             change |-> RoundSigned(change[1], change[2], carry),
             confidence |-> IF n >= 20 THEN "moderate" ELSE "low"]>>
        \* predicted - avg_mood, of the predicted c that was avg_mood + d / q
        \* before the clamp
        Clamped(sm, sx, c, p, q, d) ==
            Reported(sm, sx, c, IF c = <<p, q>> THEN <<d, q>>
                                ELSE <<c[1] * n - sm * c[2], c[2] * n>>)
        Projected(sm, sx, base, d, q) ==
            Clamped(sm, sx, Clamp(base + d, q), base + d, q, d)
        \* x = lo + gx * u and m = gm * v + a constant;
        \* cxy and cxx are n * n times the covariance and the variance
        Line(sm, sx, gx, gm, su, cxy, cxx) ==
            IF \/ Abs(gm * cxy * scale) * eps[2] < eps[1] * gx * cxx * 10
               \/ /\ Abs(gm * cxy * scale) * eps[2] = eps[1] * gx * cxx * 10
                  /\ residue < 0
            THEN <<>>
            ELSE Projected(sm, sx, sm * gx * cxx,
                           gm * cxy * ((target - SeqMin(xs)) * n - gx * su),
                           gx * cxx * n)
        Fit(u, v, gx, gm) ==
            Line(SeqSum(ms), SeqSum(xs), gx, gm, SeqSum(u),
                 n * Dot(u, v) - SeqSum(u) * SeqSum(v),
                 n * Dot(u, u) - SeqSum(u) * SeqSum(u))
    IN  IF n < 5 THEN <<>>
        ELSE IF StdIsZero(xs) THEN <<>>
        ELSE IF type = "habits" /\ target * n <= SeqSum(xs) THEN <<>>
        ELSE IF StdIsZero(ms) THEN
            \* np.corrcoef is nan, and so are slope and predicted:
            \* min(10, nan) is 10, and abs(nan) < eps is False
            Reported(SeqSum(ms), SeqSum(xs), <<100, 1>>, <<100 * n - SeqSum(ms), n>>)
        ELSE Fit(Normalised(xs), Normalised(ms), Spread(xs, n), Spread(ms, n))

\* The (treatment, mood) columns of the rows a helper pairs.
PairsOf(dataset, treatment, Kept(_)) ==
    SelectSeq(dataset, LAMBDA d : Kept(Get(d, treatment)) /\ Truthy(Get(d, "mood")))

Column(rows, key) == [i \in 1..Len(rows) |-> Get(rows[i], key)]

\* CausalInferenceService._sleep_counterfactual
SleepCounterfactual(dataset, residue, carry) ==
    LET Of(pairs) == LinearCounterfactual("sleep", Column(pairs, "sleep_hours"),
                                          Column(pairs, "mood"), 10, 80,
                                          Frac(5, 100), 1, residue, carry)
    IN  Of(PairsOf(dataset, "sleep_hours", Truthy))

\* CausalInferenceService._habits_counterfactual
HabitsCounterfactual(dataset, residue, carry) ==
    LET Max(xs) == IF xs = <<>> THEN 0 ELSE SeqMax(xs)
        Of(pairs) == LinearCounterfactual("habits", Column(pairs, "habits_completed"),
                                          Column(pairs, "mood"), 1,
                                          Max(Column(pairs, "habits_completed")),
                                          Frac(5, 100), 1, residue, carry)
    IN  Of(PairsOf(dataset, "habits_completed", LAMBDA x : x # NoneValue))

\* CausalInferenceService._deep_work_counterfactual
DeepWorkCounterfactual(dataset, residue, carry) ==
    LET Of(pairs) == LinearCounterfactual("deep_work", Column(pairs, "deep_work_minutes"),
                                          Column(pairs, "mood"), 1, 120,
                                          Frac(1, 100), 0, residue, carry)
    IN  Of(PairsOf(dataset, "deep_work_minutes", Truthy))

\* CausalInferenceService.generate_counterfactuals
GenerateCounterfactuals(cal, residue, carry) ==
    LET Of(dataset) ==
            IF Len(dataset) < 10 THEN <<>>
            ELSE SleepCounterfactual(dataset, residue, carry)
                 \o HabitsCounterfactual(dataset, residue, carry)
                 \o DeepWorkCounterfactual(dataset, residue, carry)
    IN  Of(BuildDailyDataset(cal, 60))

\* feature.replace("_", " ")
FeatureLabel(feature) ==
    CASE feature = "sleep_hours" -> "sleep hours"
      [] feature = "habits_completed" -> "habits completed"
      [] feature = "context_switches" -> "context switches"
      [] feature = "deep_work_minutes" -> "deep work minutes"
      [] feature = "social_interactions" -> "social interactions"
      [] feature = "avg_social_impact" -> "avg social impact"
      [] OTHER -> feature

\* A hypothesis that always increases.
GenerateHypothesisIncreasing(feature, direction) ==
    <<"Increasing", FeatureLabel(feature), "will improve mood.">>

\* CausalInferenceService._generate_hypothesis
GenerateHypothesis(feature, direction) ==
    IF direction = "positive"
    THEN <<"Increasing", FeatureLabel(feature), "will improve mood.">>
    ELSE <<"Decreasing", FeatureLabel(feature), "will improve mood.">>

\* CausalInferenceService._generate_protocol: the table's text of a feature
\* it lists, the template for any other.
GenerateProtocol(feature, direction) ==
    IF \E k \in 1..Len(Features) : Features[k] = feature
    THEN <<"protocol of", feature>>
    ELSE <<"Week 1: Baseline. Week 2: Modify", FeatureLabel(feature), ". Compare mood.">>

\* CausalInferenceService.suggest_experiments
SuggestExperiments(cal, residue) ==
    LET Experiment(c) ==
            [variable |-> c.feature,
             correlation_with_mood |-> c.correlation,
             hypothesis |-> GenerateHypothesis(c.feature, c.direction),
             protocol |-> GenerateProtocol(c.feature, c.direction),
             duration_days |-> 14,
             measurement |-> "Track daily mood (1-10) throughout the experiment."]
        RECURSIVE Loop(_, _, _)
        Appended(correlations, k, suggestions) ==
            IF Len(suggestions) >= 3 THEN suggestions
            ELSE Loop(correlations, k + 1, suggestions)
        Loop(correlations, k, suggestions) ==
            IF k > Len(correlations) THEN suggestions
            ELSE IF ~correlations[k].significant
                    \/ correlations[k].strength = "negligible"
            THEN Loop(correlations, k + 1, suggestions)
            ELSE Appended(correlations, k,
                          Append(suggestions, Experiment(correlations[k])))
    IN  Loop(GetCorrelations(cal, 60, residue).correlations, 1, <<>>)

----------------------------------------------------------------------------
(* The calendars of the what-if endpoints *)

\* Runs of equal days in an initial calendar of the what-if endpoints.
MaxWhatIfRuns == 4

\* Mood 5 after six hours of sleep: no habit done, no deep work, an
\* interaction without a rating.
ShortDay ==
    [moods |-> <<MoodLogRow(5, 7, 3)>>,
     entries |-> <<EntryRow(NoneValue, NoneValue, NoneValue, 60, FALSE)>>,
     habit_logs |-> <<FALSE, FALSE>>,
     contexts |-> <<ContextRow("admin", 20, FALSE)>>,
     interactions |-> <<NoneValue>>]

\* Mood 5 again, after seven and a half hours: a habit done, half an hour
\* of coding.
DullDay ==
    [moods |-> <<MoodLogRow(5, 7, 3)>>,
     entries |-> <<EntryRow(NoneValue, NoneValue, NoneValue, 75, FALSE)>>,
     habit_logs |-> <<TRUE>>,
     contexts |-> <<ContextRow("coding", 30, FALSE)>>,
     interactions |-> <<4>>]

\* Mood 8 after seven hours: both habits done, three hours of deep work.
LongDay ==
    [moods |-> <<MoodLogRow(8, 7, 3)>>,
     entries |-> <<EntryRow(NoneValue, NoneValue, NoneValue, 70, FALSE)>>,
     habit_logs |-> <<TRUE, TRUE>>,
     contexts |-> <<ContextRow("deep_work", 180, FALSE)>>,
     interactions |-> <<3>>]

WhatIfDayKinds == {ShortDay, DullDay, HighDay, LongDay}

\* Ten days in a row of the short kind, two of any other.
WhatIfDayRun == {[n |-> IF day = ShortDay THEN 10 ELSE 2, day |-> day] :
                    day \in WhatIfDayKinds}

WhatIfCalendars == UNION {[1..k -> WhatIfDayRun] : k \in 0..MaxWhatIfRuns}

InitWhatIf ==
    /\ calendar \in WhatIfCalendars
    /\ moodLogs = <<>>
    /\ habits = {}
    /\ habitLogs = <<>>
    /\ journal = <<>>
    /\ call = NoCall
    /\ result = NoCall
    /\ files = [path \in {ModelPath(m) : m \in ModelNames} |-> NoFile]
    /\ mlModels = <<>>
    /\ workers = [w \in Workers |-> IdleWorker]
    /\ loaded = [w \in Workers |-> NothingLoaded]
    /\ retrains = 0
    /\ predictions = <<>>
    /\ dowhy = "None"
    /\ earlier = Unobserved

GenerateCounterfactualsCall ==
    \E residue \in Residues, carry \in Residues :
        /\ Idle
        /\ call' = [op |-> "generate_counterfactuals", residue |-> residue,
                    carry |-> carry]
        /\ result' = GenerateCounterfactuals(calendar, residue, carry)
        /\ UNCHANGED <<causalFrame, predictions, dowhy, earlier>>

SuggestExperimentsCall ==
    \E residue \in Residues :
        /\ Idle
        /\ call' = [op |-> "suggest_experiments", residue |-> residue]
        /\ result' = SuggestExperiments(calendar, residue)
        /\ UNCHANGED <<causalFrame, predictions, dowhy, earlier>>

NextWhatIf ==
    \/ GenerateCounterfactualsCall
    \/ SuggestExperimentsCall
    \/ RespondCausal

SpecWhatIf == InitWhatIf /\ [][NextWhatIf]_vars

----------------------------------------------------------------------------
(* C23, C24 and C25: counterfactuals and experiment suggestions *)

CounterfactualsReturned == call.op = "generate_counterfactuals"

\* C23: every counterfactual generate_counterfactuals returns has a
\* predicted_avg within [1, 10] (here in tenths), sleep, habits and deep
\* work alike, whatever the slope and the distance to the target.
C23_PredictedAvgWithinOneToTen ==
    CounterfactualsReturned =>
        \A i \in 1..Len(result) :
            /\ result[i].type \in {"sleep", "habits", "deep_work"}
            /\ result[i].predicted_avg >= 10
            /\ result[i].predicted_avg <= 100

\* A deep work counterfactual whose line passes 10 at two hours of deep
\* work, next to one that stays inside.
C23_Witness ==
    /\ CounterfactualsReturned
    /\ \E i, j \in 1..Len(result) :
          /\ result[i].type = "deep_work"
          /\ result[i].predicted_avg = 100
          /\ result[i].current_avg < 70
          /\ result[j].predicted_avg \in 11..99

\* The rows a helper pairs for a type of counterfactual.
PairedRows(type) ==
    LET dataset == BuildDailyDataset(calendar, 60)
    IN  CASE type = "sleep" -> PairsOf(dataset, "sleep_hours", Truthy)
          [] type = "habits" -> PairsOf(dataset, "habits_completed", LAMBDA x : x # NoneValue)
          [] OTHER -> PairsOf(dataset, "deep_work_minutes", Truthy)

TreatmentOf(type) ==
    CASE type = "sleep" -> "sleep_hours"
      [] type = "habits" -> "habits_completed"
      [] OTHER -> "deep_work_minutes"

\* C24: a counterfactual is returned only when at least 5 rows pair the
\* treatment with a mood, the treatment varies over them, and the slope of
\* mood on the treatment is at least 0.05 (sleep, per hour; habits) or 0.01
\* (deep work, per minute) in size; it is labelled "moderate" exactly when
\* the paired rows are at least 20, and "low" otherwise.
C24_EmittedOnlyWithPairsVarianceAndSlope ==
    CounterfactualsReturned =>
        \A i \in 1..Len(result) :
            LET xs == Column(PairedRows(result[i].type), TreatmentOf(result[i].type))
                ms == Column(PairedRows(result[i].type), "mood")
                n == Len(xs)
                \* n * n times the covariance and the variance
                cxy == n * SeqSum([k \in 1..n |-> xs[k] * ms[k]]) - SeqSum(xs) * SeqSum(ms)
                cxx == n * SeqSum([k \in 1..n |-> xs[k] * xs[k]]) - SeqSum(xs) * SeqSum(xs)
                \* |slope| >= epsilon is |cxy| * size >= cxx
                size == CASE result[i].type = "sleep" -> 20
                          [] result[i].type = "habits" -> 2
                          [] OTHER -> 10
            IN  /\ n >= 5
                /\ cxx > 0
                /\ (IF cxy < 0 THEN -cxy ELSE cxy) * size >= cxx
                /\ result[i].confidence = IF n >= 20 THEN "moderate" ELSE "low"

SuggestionsReturned == call.op = "suggest_experiments"

Qualifies(c) == c.significant /\ c.strength # "negligible"

\* The place in the list cs of the j-th record that qualifies.
QualifyingPlace(cs, j) ==
    CHOOSE i \in 1..Len(cs) :
        /\ Qualifies(cs[i])
        /\ Cardinality({k \in 1..(i - 1) : Qualifies(cs[k])}) = j - 1

\* C25: suggest_experiments returns at most 3 suggestions; they are, in the
\* order of the correlation list, the first records of it that are
\* significant and not negligible, none passed over for a later one; each
\* lasts 14 days and its hypothesis is 'Increasing X' for a positive
\* direction and 'Decreasing X' for a negative one.
C25_SuggestionsAreFirstQualifying ==
    SuggestionsReturned =>
        LET Holds(cs, qualifying) ==
                /\ Len(result) <= 3
                /\ Len(result) = IF qualifying > 3 THEN 3 ELSE qualifying
                /\ \A j \in 1..Len(result) :
                      LET c == cs[QualifyingPlace(cs, j)]
                      IN  /\ result[j].variable = c.feature
                          /\ result[j].correlation_with_mood = c.correlation
                          /\ result[j].duration_days = 14
                          /\ result[j].hypothesis[1] =
                                IF c.direction = "positive" THEN "Increasing"
                                ELSE "Decreasing"
                          /\ result[j].hypothesis[2] = FeatureLabel(c.feature)
            Walked(cs) == Holds(cs, Cardinality({i \in 1..Len(cs) : Qualifies(cs[i])}))
        IN  Walked(GetCorrelations(calendar, 60, call.residue).correlations)

\* Three suggestions, the third of them taken after a record of a larger
\* coefficient that is not significant.
C25_Witness ==
    /\ SuggestionsReturned
    /\ Len(result) = 3
    /\ LET Passed(cs, third) ==
               /\ third > 3
               /\ \E i \in 1..(third - 1) :
                     ~cs[i].significant /\ cs[i].strength # "negligible"
           Walked(cs) == Passed(cs, QualifyingPlace(cs, 3))
       IN  Walked(GetCorrelations(calendar, 60, call.residue).correlations)


(***************************************************************************)
(* api/habits.py: log_habit and get_habit_stats                            *)
(***************************************************************************)

\* Under SpecHabits the table habit_logs is held log by log, in insertion
\* order, each row with the columns log_habit writes.  A date is a day
\* number; day 0 is a Monday.  The clock reading of a request
\* (datetime.now().date()) is kept with the request as call.today.
MaxHabitLogs == 3
LogDays == {1, 2}
HabitIds == {1, 2, 3}

\* HabitLogCreate: completed defaults to True; the other fields are optional.
HabitLogCreates ==
    {[completed |-> TRUE, difficulty |-> NoneValue, satisfaction |-> NoneValue,
      notes |-> "None", skip_reason |-> "None"],
     [completed |-> TRUE, difficulty |-> 3, satisfaction |-> 4,
      notes |-> "easy", skip_reason |-> "None"],
     [completed |-> FALSE, difficulty |-> NoneValue, satisfaction |-> NoneValue,
      notes |-> "None", skip_reason |-> "sick"]}

\* A filter that matches no row, so that every call inserts.
ExistingNever(t, habit_id, today) == {}

\* The places of the rows with HabitLog.habit_id == habit_id and
\* HabitLog.log_date == today; .first() takes one of them.
Existing(t, habit_id, today) ==
    {i \in DOMAIN t : t[i].habit_id = habit_id /\ t[i].log_date = today}

\* existing.completed = log.completed, ... on the row found
UpdatedLog(existing, log) ==
    [existing EXCEPT !.completed = log.completed,
                     !.difficulty = log.difficulty,
                     !.satisfaction = log.satisfaction,
                     !.notes = log.notes,
                     !.skip_reason = log.skip_reason]

\* HabitLog(habit_id=habit_id, user_id=1, log_date=today, ...)
NewHabitLog(habit_id, today, log) ==
    [habit_id |-> habit_id, user_id |-> 1, log_date |-> today,
     completed |-> log.completed, difficulty |-> log.difficulty,
     satisfaction |-> log.satisfaction, notes |-> log.notes,
     skip_reason |-> log.skip_reason]

HabitNotFound == Raised("404: Habit not found")

habitsFrame == <<moodLogs, habits, journal, files, mlModels, workers, loaded,
                 retrains, calendar, predictions, dowhy, earlier>>

\* POST /{habit_id}/log
LogHabitCall ==
    \E habit_id \in HabitIds, today \in LogDays, log \in HabitLogCreates :
        /\ call' = [op |-> "log_habit", habit_id |-> habit_id,
                    today |-> today, log |-> log]
        /\ IF ~\E h \in habits : h.id = habit_id
           THEN /\ result' = HabitNotFound
                /\ UNCHANGED habitLogs
           ELSE IF Existing(habitLogs, habit_id, today) # {}
           THEN \E i \in Existing(habitLogs, habit_id, today) :
                    /\ habitLogs' = [habitLogs EXCEPT ![i] = UpdatedLog(@, log)]
                    /\ result' = [status |-> "success",
                                  message |-> "Habit log updated"]
           ELSE /\ Len(habitLogs) < MaxHabitLogs
                /\ habitLogs' = Append(habitLogs,
                                       NewHabitLog(habit_id, today, log))
                /\ result' = [status |-> "success", message |-> "Habit logged"]
        /\ UNCHANGED habitsFrame

\* The log dates of a list of logs.
LogDates(logs) == {logs[i].log_date : i \in DOMAIN logs}

\* The loop over the last 60 days: a day with a completed log counts, today
\* without one is passed over, any other day without one ends the streak.
RECURSIVE CurrentStreak(_, _, _, _)
CurrentStreak(logs, today, i, streak) ==
    IF i = 60 THEN streak
    ELSE IF \E k \in DOMAIN logs : logs[k].log_date = today - i /\ logs[k].completed
    THEN CurrentStreak(logs, today, i + 1, streak + 1)
    ELSE IF i = 0 THEN CurrentStreak(logs, today, 1, streak)
    ELSE streak

\* The longest run of consecutive dates among the completed dates.
LongestStreak(completed_dates) ==
    LET runs == {<<a, b>> \in completed_dates \X completed_dates :
                     a <= b /\ \A d \in a..b : d \in completed_dates}
    IN  IF runs = {} THEN 0
        ELSE CHOOSE m \in {r[2] - r[1] + 1 : r \in runs} :
                 \A r \in runs : r[2] - r[1] + 1 <= m

\* sorted(...) of a set of dates
RECURSIVE Ascending(_)
Ascending(dates) ==
    IF dates = {} THEN <<>>
    ELSE LET least == CHOOSE d \in dates : \A e \in dates : d <= e
         IN  <<least>> \o Ascending(dates \ {least})

\* The statistics of the logs of one habit, as get_habit_stats returns them;
\* the rates are in hundredths.
HabitStats(habit, t, today) ==
    LET logs == SelectSeq(t, LAMBDA l : l.habit_id = habit.id)
        done == SelectSeq(logs, LAMBDA l : l.completed)
        total == Len(logs)
        week_start == today - (today % 7)
        week_end == week_start + 6
        recent_logs == SelectSeq(logs, LAMBDA l : l.log_date >= today - 30)
        recent_completed == Len(SelectSeq(recent_logs, LAMBDA l : l.completed))
    IN  [habit_id |-> habit.id,
         habit_name |-> habit.habit_name,
         total_logs |-> total,
         total_completed |-> Len(done),
         completion_rate |-> IF total > 0 THEN Round2(Len(done), total) ELSE 0,
         current_streak |-> CurrentStreak(logs, today, 0, 0),
         longest_streak |-> LongestStreak(LogDates(done)),
         week_logs |-> Ascending({d \in LogDates(done) :
                                      week_start <= d /\ d <= week_end}),
         recent_30d_rate |-> IF recent_logs # <<>>
                             THEN Round2(recent_completed, Len(recent_logs))
                             ELSE 0,
         recent_30d_completed |-> recent_completed]

\* GET /{habit_id}/stats
GetHabitStatsCall ==
    \E habit_id \in HabitIds, today \in LogDays :
        /\ call' = [op |-> "get_habit_stats", habit_id |-> habit_id,
                    today |-> today]
        /\ result' = IF \E h \in habits : h.id = habit_id
                     THEN HabitStats(CHOOSE h \in habits : h.id = habit_id,
                                     habitLogs, today)
                     ELSE HabitNotFound
        /\ UNCHANGED <<habitLogs, habitsFrame>>

\* The server starts on a database with the two habits and no habit log.
InitHabits ==
    /\ habits = HabitTable
    /\ habitLogs = <<>>
    /\ moodLogs = <<>>
    /\ journal = <<>>
    /\ calendar = <<>>
    /\ call = NoCall
    /\ result = NoCall
    /\ files = [path \in {ModelPath(m) : m \in ModelNames} |-> NoFile]
    /\ mlModels = <<>>
    /\ workers = [w \in Workers |-> IdleWorker]
    /\ loaded = [w \in Workers |-> NothingLoaded]
    /\ retrains = 0
    /\ predictions = <<>>
    /\ dowhy = "None"
    /\ earlier = Unobserved

NextHabits == LogHabitCall \/ GetHabitStatsCall

SpecHabits == InitHabits /\ [][NextHabits]_vars

(***************************************************************************)
(* C28                                                                     *)
(***************************************************************************)

\* The logs of one habit on one day.
LogsOn(t, habit_id, day) ==
    SelectSeq(t, LAMBDA l : l.habit_id = habit_id /\ l.log_date = day)

\* The days on which a habit has a log.
DaysLogged(t, habit_id) ==
    {t[i].log_date : i \in {k \in DOMAIN t : t[k].habit_id = habit_id}}

\* C28: logging a habit is an upsert per (habit, day).  After every answered
\* log_habit call there is exactly one HabitLog of that habit on that day and
\* it holds the values of the call; a call that finds a log of the habit on
\* the day (every call after the first) answers "Habit log updated" and adds
\* no row, the first one answers "Habit logged"; no habit ever has two logs
\* on one day, and total_logs of get_habit_stats is the number of days logged.
C28_LogHabitIsUpsertPerDay ==
    [][/\ \A h \in HabitIds, d \in LogDays : Len(LogsOn(habitLogs', h, d)) <= 1
       /\ (call'.op = "log_habit" /\ result' # HabitNotFound) =>
              LET on == LogsOn(habitLogs, call'.habit_id, call'.today)
                  after == LogsOn(habitLogs', call'.habit_id, call'.today)
              IN  /\ after = <<NewHabitLog(call'.habit_id, call'.today, call'.log)>>
                  /\ on # <<>> => /\ result'.message = "Habit log updated"
                                  /\ Len(habitLogs') = Len(habitLogs)
                  /\ on = <<>> => /\ result'.message = "Habit logged"
                                  /\ Len(habitLogs') = Len(habitLogs) + 1
       /\ (call'.op = "get_habit_stats" /\ result' # HabitNotFound) =>
              result'.total_logs = Cardinality(DaysLogged(habitLogs', call'.habit_id))
      ]_vars

\* A call updated the log of its day to a skipped one, the habit has a log on
\* another day too, and the table holds one row for each.
C28_Witness ==
    /\ call.op = "log_habit"
    /\ result = [status |-> "success", message |-> "Habit log updated"]
    /\ ~call.log.completed
    /\ LogsOn(habitLogs, call.habit_id, call.today)
           = <<NewHabitLog(call.habit_id, call.today, call.log)>>
    /\ Cardinality(DaysLogged(habitLogs, call.habit_id)) = 2
    /\ Len(SelectSeq(habitLogs, LAMBDA l : l.habit_id = call.habit_id)) = 2

====
